---- MODULE Spec2Model ----
(***************************************************************************)
(* Model of the Users service (src/service/Users.js): a cache tier (Redis) *)
(* holding the bundle cache, the presence keys and the username registry,  *)
(* and a durable tier (PostgreSQL) holding the users / user_settings /     *)
(* user_profiles rows.  Every public operation is a call made by a process *)
(* of Procs; a call that awaits more than one store round trip is split at *)
(* its awaits, so that concurrent calls interleave as they do on the event *)
(* loop and between server instances.                                      *)
(***************************************************************************)
EXTENDS Integers, Sequences, FiniteSets, TLC

(***************************************************************************)
(* Bounds of the model.                                                    *)
(***************************************************************************)
\* number of calls started in one behaviour
MaxOps == 2
\* number of calls started in one behaviour of SpecBundle
MaxBundleOps == 3

\* calls issued in SpecRename
MaxRenameOps == 3
\* calls issued in SpecBatch
MaxBatchOps == 2
\* calls issued in SpecCalls
MaxCalls == 2
\* length of the uid lists passed to the batch operations
MaxBatchLen == 2
MaxTimedOps == 3
MaxHydrateOps == 2
TickSeconds == 100
MaxAge == 500

Procs == {"p1", "p2"}

(***************************************************************************)
(* Program constants.                                                      *)
(***************************************************************************)
\* Users.USERNAME_POLICY
MIN_LEN == 3
MAX_LEN == 30

\* Users.REDIS_TIMING_SECONDS
CRITICAL_USER_DATA_TTL == 300
PRESENCE_TTL == 300

\* the longest uid list getCriticalUsersData / getBatchOnlineStatus accept
CUD_BATCH_MAX == 200
PRESENCE_BATCH_MAX == 500

\* Users.PRESENCE_MODE
PRESENCE_MODE == [REAL |-> "real", AWAY |-> "away", OFFLINE |-> "offline"]

\* names bound in the module scope of service/Users.js: its imports and the
\* class itself.  Static methods are reachable only through `this.` / `Users.`
ModuleScope == {"ErrorHandler", "Logger", "db", "SafeUtils", "RedisClient", "Users"}

\* a bare identifier resolves only if the module scope binds it; otherwise the
\* call site raises a ReferenceError, which the enclosing try/catch receives
Bound(identifier) == identifier \in ModuleScope

(***************************************************************************)
(* Strings that the code inspects character by character (usernames) are   *)
(* sequences of one-character strings.                                     *)
(***************************************************************************)
LowerLetters == <<"a","b","c","d","e","f","g","h","i","j","k","l","m",
                  "n","o","p","q","r","s","t","u","v","w","x","y","z">>
UpperLetters == <<"A","B","C","D","E","F","G","H","I","J","K","L","M",
                  "N","O","P","Q","R","S","T","U","V","W","X","Y","Z">>
DigitChars == {"0","1","2","3","4","5","6","7","8","9"}
WhiteSpace == {" ", "\t", "\n"}

Range(s) == {s[i] : i \in 1..Len(s)}

\* String.prototype.toLowerCase, one character
LowerChar(c) ==
  IF \E i \in 1..26 : UpperLetters[i] = c
  THEN LowerLetters[CHOOSE i \in 1..26 : UpperLetters[i] = c]
  ELSE c

RECURSIVE toLowerCase(_)
toLowerCase(s) ==
  IF s = <<>> THEN <<>> ELSE <<LowerChar(Head(s))>> \o toLowerCase(Tail(s))

\* String.prototype.trim
trim(s) ==
  LET keep == {i \in 1..Len(s) : s[i] \notin WhiteSpace}
      lo == CHOOSE i \in keep : \A j \in keep : i <= j
      hi == CHOOSE i \in keep : \A j \in keep : j <= i
  IN IF keep = {} THEN <<>> ELSE SubSeq(s, lo, hi)

\* Users.normalizeUsername
normalizeUsername(username) == toLowerCase(trim(username))

\* Users.USERNAME_POLICY.REGEX = /^[a-zA-Z0-9._-]{3,30}$/
REGEX(u) ==
  /\ Len(u) >= 3
  /\ Len(u) <= 30
  /\ \A i \in 1..Len(u) :
       u[i] \in Range(LowerLetters) \cup Range(UpperLetters) \cup DigitChars \cup {".", "_", "-"}

\* the length limits alone, the character set not tested
isUsernameFormatValid_lengthOnly(username) ==
  LET u == normalizeUsername(username)
  IN IF Len(u) < MIN_LEN \/ Len(u) > MAX_LEN THEN FALSE ELSE TRUE

\* Users.isUsernameFormatValid
isUsernameFormatValid(username) ==
  LET u == normalizeUsername(username)
  IN IF Len(u) < MIN_LEN \/ Len(u) > MAX_LEN THEN FALSE ELSE REGEX(u)

(***************************************************************************)
(* Values.                                                                 *)
(***************************************************************************)
UIDS == {"u1", "u2", "u3"}
\* uids a caller may pass: the empty string fails validation
UidInputs == UIDS \cup {""}

\* what a cache read of a missing uid-valued key yields (JavaScript null)
NoUid == "null"
\* a missing / empty username: null and "" are both falsy wherever the code
\* tests a username
NoName == <<>>
\* SQL NULL in a nullable text column
SqlNull == "NULL"
\* redisGetJson's null
NoBundle == [absent |-> TRUE]
\* no row: rows[0] of an empty result
NoRecord == [absent |-> TRUE]

\* a uid list argument: an array, or null
List(items) == [kind |-> "array", items |-> items]
NullList == [kind |-> "null", items |-> <<>>]

alice == <<"a","l","i","c","e">>
bob == <<"b","o","b">>
zed == <<"z","e","d">>

\* a name of MAX_LEN + 1 characters
TooLong == [i \in 1..(MAX_LEN + 1) |-> "x"]

\* usernames a caller may pass: well formed ones in several spellings, and one
\* for each way of failing the format policy
RawNames == { alice, <<" ","A","l","i","c","E"," ">>, bob, zed,
              <<"a","b">>, <<"b","o","!">>, TooLong }

Names == {normalizeUsername(r) : r \in {x \in RawNames : isUsernameFormatValid(x)}}

(***************************************************************************)
(* The two tiers.  A cache key exists exactly when it is in the domain of  *)
(* its map.                                                                *)
(***************************************************************************)
VARIABLES
  forward,   \* username:to:uid:{name}          -> uid
  reverse,   \* uid:to:username:{uid}           -> name
  cud,       \* cud:{uid}                       -> bundle (JSON)
  cudTtl,    \* cud:{uid}                       -> seconds left to live (0: no expiry)
  override,  \* presence:override:user:{uid}    -> mode
  summary,   \* presence:summary:user:{uid}     -> "1"
  summaryTtl, \* presence:summary:user:{uid}    -> seconds left to live
  users,     \* table users: uid -> row
  settings,  \* table user_settings: uid -> row
  profiles,  \* table user_profiles: uid -> row
  history,   \* per uid: every row the users table has held for it
  age,       \* per uid: seconds since its username, display name or avatar last changed
  beat,      \* per uid: seconds since its last successful heartbeat, or Never
  call       \* per process: the call in progress or last completed

vars == <<forward, reverse, cud, cudTtl, override, summary, summaryTtl, users, settings,
          profiles, history, age, beat, call>>

cache == <<forward, reverse, cud, cudTtl, override, summary, summaryTtl>>
\* the durable tier, with the record of its past users rows
durable == <<users, settings, profiles, history>>
\* the time elapsed since the events the TTLs are measured from
clocks == <<age, beat>>

Never == 0 - 1

\* the users table becomes rows: the clock of every uid whose username,
\* display name or avatar is no longer what it was starts again
Changed(rows) ==
  [u \in DOMAIN age |->
     IF /\ u \in DOMAIN rows
        /\ u \in DOMAIN users
        /\ \E f \in {"username_lower", "display_name", "avatar_url"} : rows[u][f] # users[u][f]
     THEN 0 ELSE age[u]]

\* the users table becomes rows: its rows join the record
Remember(rows) ==
  [u \in DOMAIN history |-> IF u \in DOMAIN rows THEN history[u] \cup {rows[u]} ELSE history[u]]

\* RedisClient.get / set / del on one key family
Has(map, k) == k \in DOMAIN map
Put(map, k, v) == [x \in DOMAIN map \cup {k} |-> IF x = k THEN v ELSE map[x]]
Del(map, k) == [x \in DOMAIN map \ {k} |-> map[x]]
Empty == [x \in {} |-> NoUid]

\* Users.redisSetJson: the expiry the key is written with (0: none)
Expiry(ttlSeconds) == IF ttlSeconds > 0 THEN ttlSeconds ELSE 0

\* Users.redisGetJson: a missing key reads as null
redisGetJson(map, k) == IF Has(map, k) THEN map[k] ELSE NoBundle

(***************************************************************************)
(* Calls.                                                                  *)
(***************************************************************************)
NoRet == [kind |-> "none"]

IdleCall ==
  [op |-> "none", pc |-> "idle", uid |-> NoUid, name |-> NoName,
   existingOwner |-> NoUid, oldUsername |-> NoName, bundle |-> NoBundle,
   presence |-> [online |-> FALSE, status |-> "offline"], mode |-> "",
   tableName |-> "", fieldKey |-> "",
   uids |-> NullList, results |-> <<>>, misses |-> <<>>, overrides |-> <<>>,
   fault |-> FALSE, err |-> "", queries |-> 0,
   ret |-> NoRet, reads |-> 0, captured |-> FALSE, solo |-> TRUE, again |-> FALSE,
   before |-> NoRecord, n |-> 0]

InFlight(c) == c.pc \notin {"idle", "done"}

\* process p moves to record r; any other call in flight has now run
\* concurrently with p
Step(p, r) ==
  call' = [q \in Procs |->
             IF q = p THEN r
             ELSE IF InFlight(call[q]) THEN [call[q] EXCEPT !.solo = FALSE]
             ELSE call[q]]

\* a fresh call record for p, its n-th call: its locals are those of IdleCall
Begin(p, op, uid) ==
  [IdleCall EXCEPT !.op = op, !.uid = uid, !.n = call[p].n + 1,
                   !.solo = \A q \in Procs \ {p} : ~InFlight(call[q])]

\* p2 is the concurrent actor: it starts a call only while p1 has a call in
\* flight or has completed one (the two processes are interchangeable)
CanCall(p) ==
  /\ ~InFlight(call[p])
  /\ call["p1"].n + call["p2"].n < MaxOps
  /\ p = "p2" => call["p1"].pc # "idle"

\* the field accessor and the presence mutations are issued by p1; p2 is the
\* concurrent claimant (setUsername) or reader (getCriticalUserData,
\* getOnlineStatus)
Mutator(p) == p = "p1"

\* return v from call c; the locals are dropped
Return(c, v) ==
  [IdleCall EXCEPT !.pc = "done", !.op = c.op, !.uid = c.uid, !.name = c.name,
                   !.tableName = c.tableName, !.fieldKey = c.fieldKey,
                   !.uids = c.uids, !.fault = c.fault,
                   !.queries = c.queries, !.ret = v, !.reads = c.reads, !.again = c.again, !.n = c.n]

\* a catch block that captures the error and throws it again: the call ends
\* without a value
Catch_rethrow(c, v) == [Return(c, NoRet) EXCEPT !.captured = TRUE]

\* the catch block of a public method: ErrorHandler.capture, then the
\* method's failure value
Catch(c, v) == [Return(c, v) EXCEPT !.captured = TRUE]

\* the catch block, with the message of the error it captures
CatchErr(c, v, msg) == [Catch(c, v) EXCEPT !.err = msg]

\* SafeUtils.sanitizeValidate on a {type: "string", required: true} rule
RequiredString(v) == v # "" /\ v # NoUid

\* SafeUtils.sanitizeValidate on a {type: "array", required: true, min, max}
\* rule
RequiredArray(v, min, max) ==
  v.kind = "array" /\ Len(v.items) >= min /\ Len(v.items) <= max

\* a call that starts with a uid list
BeginList(p, op, uids) == [Begin(p, op, NoUid) EXCEPT !.uids = uids]

\* a list returned to the caller
ListRet(items) == [kind |-> "list", items |-> items]

(***************************************************************************)
(* Users.setUsername                                                       *)
(***************************************************************************)
Failure(msg) == [kind |-> "result", success |-> FALSE, previous |-> NoName, error |-> msg]
Success(previous) == [kind |-> "result", success |-> TRUE, previous |-> previous, error |-> ""]

\* the users row of uid would collide with another row on the UNIQUE column
UniqueViolation(uid, name) ==
  /\ uid \in DOMAIN users
  /\ \E v \in DOMAIN users \ {uid} : users[v].username_lower = name

\* the registry, the durable row and the cached bundle all say uid has name
Converged(uid, name) ==
  /\ Has(forward, name) /\ forward[name] = uid
  /\ Has(reverse, uid) /\ reverse[uid] = name
  /\ uid \in DOMAIN users => users[uid].username_lower = name
  /\ Has(cud, uid) => cud[uid].username = name

\* validateInputs, normalizeUsername, isUsernameFormatValid: no store is
\* touched before the first await.  `again` notes that the call begins in a
\* state where uid already has the name in both tiers, `before` the users row
\* of uid as the call finds it.
SetUsername_Enter(p, uid, username) ==
  /\ LET c == [Begin(p, "setUsername", uid) EXCEPT
                 !.name = normalizeUsername(trim(username)),
                 !.again = Converged(uid, normalizeUsername(trim(username))),
                 !.before = IF uid \in DOMAIN users THEN users[uid] ELSE NoRecord]
     IN IF ~RequiredString(uid) \/ trim(username) = <<>>
        THEN Step(p, Catch([c EXCEPT !.name = NoName], Failure("VALIDATION_ERROR")))
        ELSE IF ~isUsernameFormatValid(c.name)
        THEN Step(p, Catch([c EXCEPT !.name = NoName], Failure("INVALID_USERNAME_FORMAT")))
        ELSE Step(p, [c EXCEPT !.pc = "su_getOwner"])
  /\ UNCHANGED <<cache, durable, clocks>>

SetUsername_Call(p, uid, username) == CanCall(p) /\ SetUsername_Enter(p, uid, username)

\* the comparison of the owner read the wrong way round
TakenByOther_inverted(existingOwner, uid) == existingOwner # NoUid /\ existingOwner = uid

\* the owner read that decides the claim
TakenByOther(existingOwner, uid) == existingOwner # NoUid /\ existingOwner # uid

\* const existingOwner = await RedisClient.get(mapKey)
SetUsername_GetOwner(p) ==
  LET c == call[p]
      existingOwner == IF Has(forward, c.name) THEN forward[c.name] ELSE NoUid
  IN /\ c.pc = "su_getOwner"
     /\ IF TakenByOther(existingOwner, c.uid)
        THEN Step(p, Catch(c, Failure("USERNAME_TAKEN")))
        ELSE Step(p, [c EXCEPT !.pc = "su_getOld", !.existingOwner = existingOwner])
     /\ UNCHANGED <<cache, durable, clocks>>

\* const oldUsername = await RedisClient.get(keyUidToUsername(vUid))
SetUsername_GetOld(p) ==
  LET c == call[p]
  IN /\ c.pc = "su_getOld"
     /\ Step(p, [c EXCEPT !.pc = "su_setMap",
                          !.oldUsername = IF Has(reverse, c.uid) THEN reverse[c.uid] ELSE NoName])
     /\ UNCHANGED <<cache, durable, clocks>>

\* await RedisClient.set(mapKey, vUid)
SetUsername_SetMap(p) ==
  LET c == call[p]
  IN /\ c.pc = "su_setMap"
     /\ forward' = Put(forward, c.name, c.uid)
     /\ Step(p, [c EXCEPT !.pc = "su_setMirror"])
     /\ UNCHANGED <<reverse, cud, cudTtl, override, summary, summaryTtl, durable, clocks>>

\* await RedisClient.set(keyUidToUsername(vUid), vUsername)
SetUsername_SetMirror(p) ==
  LET c == call[p]
  IN /\ c.pc = "su_setMirror"
     /\ reverse' = Put(reverse, c.uid, c.name)
     /\ Step(p, [c EXCEPT !.pc = "su_update"])
     /\ UNCHANGED <<forward, cud, cudTtl, override, summary, summaryTtl, durable, clocks>>

\* the old entry looked up even when the name did not change
AfterCud_anyOldName(c) ==
  IF c.oldUsername # NoName
  THEN [c EXCEPT !.pc = "su_getCurr"]
  ELSE Return(c, Success(c.oldUsername))

\* where the call goes once the bundle cache has been dealt with
AfterCud(c) ==
  IF c.oldUsername # NoName /\ c.oldUsername # c.name
  THEN [c EXCEPT !.pc = "su_getCurr"]
  ELSE Return(c, Success(c.oldUsername))

\* the statement that writes nothing
UpdateUsername_nothing(rows, uid, name) == rows

\* UPDATE users SET username_lower = $1 ... WHERE uid = $2 RETURNING *
\* the row count is not inspected: a uid without a row updates nothing and
\* the call goes on
UpdateUsername(rows, uid, name) ==
  IF uid \in DOMAIN rows THEN [rows EXCEPT ![uid].username_lower = name] ELSE rows

SetUsername_Update(p, fault) ==
  LET c == call[p]
  IN /\ c.pc = "su_update"
     /\ IF fault \/ UniqueViolation(c.uid, c.name)
        THEN /\ Step(p, Catch(c, Failure("STORE_ERROR")))
             /\ UNCHANGED <<users, history, age>>
        ELSE /\ users' = UpdateUsername(users, c.uid, c.name)
             /\ history' = Remember(UpdateUsername(users, c.uid, c.name))
             /\ age' = Changed(UpdateUsername(users, c.uid, c.name))
             /\ Step(p, [c EXCEPT !.pc = "su_getCud"])
     /\ UNCHANGED <<cache, settings, profiles, beat>>

\* the cached bundle read and kept as it is, its username not set
SetUsername_GetCud_unpatched(p) ==
  LET c == call[p]
      b == redisGetJson(cud, c.uid)
  IN /\ c.pc = "su_getCud"
     /\ IF b # NoBundle
        THEN Step(p, [c EXCEPT !.pc = "su_setCud", !.bundle = b])
        ELSE Step(p, AfterCud(c))
     /\ UNCHANGED <<cache, durable, clocks>>

\* const cud = await this.redisGetJson(cudKey); if (cud) cud.username = ...
SetUsername_GetCud(p) ==
  LET c == call[p]
      b == redisGetJson(cud, c.uid)
  IN /\ c.pc = "su_getCud"
     /\ IF b # NoBundle
        THEN Step(p, [c EXCEPT !.pc = "su_setCud", !.bundle = [b EXCEPT !.username = c.name]])
        ELSE Step(p, AfterCud(c))
     /\ UNCHANGED <<cache, durable, clocks>>

\* the patched bundle written back without the TTL argument
SetUsername_SetCud_noTtl(p) ==
  LET c == call[p]
  IN /\ c.pc = "su_setCud"
     /\ cud' = Put(cud, c.uid, c.bundle)
     /\ cudTtl' = Put(cudTtl, c.uid, Expiry(0))
     /\ Step(p, AfterCud([c EXCEPT !.bundle = NoBundle]))
     /\ UNCHANGED <<forward, reverse, override, summary, summaryTtl, durable, clocks>>

\* await this.redisSetJson(cudKey, cud, CRITICAL_USER_DATA_TTL)
SetUsername_SetCud(p) ==
  LET c == call[p]
  IN /\ c.pc = "su_setCud"
     /\ cud' = Put(cud, c.uid, c.bundle)
     /\ cudTtl' = Put(cudTtl, c.uid, Expiry(CRITICAL_USER_DATA_TTL))
     /\ Step(p, AfterCud([c EXCEPT !.bundle = NoBundle]))
     /\ UNCHANGED <<forward, reverse, override, summary, summaryTtl, durable, clocks>>

\* const currOwner = await RedisClient.get(oldMapKey)
SetUsername_GetCurr(p) ==
  LET c == call[p]
      currOwner == IF Has(forward, c.oldUsername) THEN forward[c.oldUsername] ELSE NoUid
  IN /\ c.pc = "su_getCurr"
     /\ IF currOwner = c.uid
        THEN Step(p, [c EXCEPT !.pc = "su_del"])
        ELSE Step(p, Return(c, Success(c.oldUsername)))
     /\ UNCHANGED <<cache, durable, clocks>>

\* the cache calls of setUsername, by the position that awaits them
CacheSteps ==
  {"su_getOwner", "su_getOld", "su_setMap", "su_setMirror",
   "su_getCud", "su_setCud", "su_getCurr", "su_del"}

\* the cache call the method is waiting for rejects (transport, timeout): the
\* catch block returns the failure; what the call has written stays written
SetUsername_CacheFault(p) ==
  LET c == call[p]
  IN /\ c.pc \in CacheSteps
     /\ Step(p, Catch(c, Failure("STORE_ERROR")))
     /\ UNCHANGED <<cache, durable, clocks>>

\* await RedisClient.del(oldMapKey)
SetUsername_Del(p) ==
  LET c == call[p]
  IN /\ c.pc = "su_del"
     /\ forward' = Del(forward, c.oldUsername)
     /\ Step(p, Return(c, Success(c.oldUsername)))
     /\ UNCHANGED <<reverse, cud, cudTtl, override, summary, summaryTtl, durable, clocks>>

(***************************************************************************)
(* Users.isUsernameTaken                                                   *)
(***************************************************************************)
Taken(b) == [kind |-> "taken", taken |-> b]

\* the forward key built from the name as passed
keyUsernameToUid_raw(name) == name

\* Users.keyUsernameToUid: the name part of the forward key
keyUsernameToUid(name) == normalizeUsername(name)

\* validateInputs (trim), the format test, then one read of the forward key;
\* a validation error is answered true by the catch block
\* fault: the read of the forward key fails
IsUsernameTaken_Enter(p, username, fault) ==
  /\ LET vUsername == trim(username)
         c == [Begin(p, "isUsernameTaken", NoUid) EXCEPT !.name = normalizeUsername(vUsername),
                                                        !.fault = fault]
     IN IF vUsername = <<>>
        THEN Step(p, Catch(c, Taken(TRUE)))
        ELSE IF ~isUsernameFormatValid(vUsername)
        THEN Step(p, Return(c, Taken(TRUE)))
        ELSE IF fault
        THEN Step(p, Catch(c, Taken(TRUE)))
        ELSE Step(p, Return(c, Taken(Has(forward, keyUsernameToUid(vUsername)))))
  /\ UNCHANGED <<cache, durable, clocks>>

IsUsernameTaken_Call(p, username) == CanCall(p) /\ IsUsernameTaken_Enter(p, username, FALSE)

(***************************************************************************)
(* Users.getOnlineStatus                                                   *)
(***************************************************************************)
Presence(online, status) == [online |-> online, status |-> status]

\* the body of getOnlineStatus from the override read on
ResolveFromKeys(uid) ==
  LET ov == IF Has(override, uid) THEN override[uid] ELSE "null"
      isOnline == Has(summary, uid)
  IN IF ov = PRESENCE_MODE.OFFLINE THEN Presence(FALSE, "offline")
     ELSE IF ov = PRESENCE_MODE.AWAY THEN Presence(TRUE, "away")
     ELSE Presence(isOnline, IF isOnline THEN "online" ELSE "offline")

\* getOnlineStatus calls validateInputs as a bare identifier (Users.js:299);
\* when that does not resolve, the try block is left before any key is read
\* and the catch block answers offline
getOnlineStatusThrows(uid) == ~Bound("validateInputs") \/ ~RequiredString(uid)

getOnlineStatus(uid) ==
  IF getOnlineStatusThrows(uid) THEN Presence(FALSE, "offline") ELSE ResolveFromKeys(uid)

\* the message of the error that leaves the try block of getOnlineStatus
\* ("": none); fault: the cache tier fails its reads
getOnlineStatusError(uid, fault) ==
  IF ~Bound("validateInputs") THEN "validateInputs is not defined"
  ELSE IF ~RequiredString(uid) THEN "VALIDATION_ERROR"
  ELSE IF fault THEN "STORE_ERROR"
  ELSE ""

GetOnlineStatus_Enter(p, uid, fault) ==
  /\ LET c == [Begin(p, "getOnlineStatus", uid) EXCEPT !.fault = fault]
         err == getOnlineStatusError(uid, fault)
     IN IF err # ""
        THEN Step(p, CatchErr(c, Presence(FALSE, "offline"), err))
        ELSE Step(p, Return(c, getOnlineStatus(uid)))
  /\ UNCHANGED <<cache, durable, clocks>>

GetOnlineStatus_Call(p, uid) == CanCall(p) /\ GetOnlineStatus_Enter(p, uid, FALSE)

(***************************************************************************)
(* Users.getCriticalUserData                                               *)
(***************************************************************************)
Null == [kind |-> "null"]
\* the value of the catch block: { status: false, data: null, error }
ErrorObject(msg) == [status |-> FALSE, data |-> "null", error |-> msg]

\* record.display_name || "" : NULL and "" both give ""
OrEmpty(v) == IF v = SqlNull THEN "" ELSE v

GetCriticalUserData_Enter(p, uid) ==
  /\ LET c == Begin(p, "getCriticalUserData", uid)
     IN IF ~RequiredString(uid)
        THEN Step(p, Catch(c, ErrorObject("VALIDATION_ERROR")))
        ELSE Step(p, [c EXCEPT !.pc = "gc_getCud"])
  /\ UNCHANGED <<cache, durable, clocks>>

GetCriticalUserData_Call(p, uid) == CanCall(p) /\ GetCriticalUserData_Enter(p, uid)

\* { ...cud, online: presence.online, status: presence.status }
Merge(b, presence) == [b EXCEPT !.online = presence.online, !.status = presence.status]

\* let cud = await this.redisGetJson(cudKey);
\* const presence = await this.getOnlineStatus(vUid); if (cud) return merged
GetCriticalUserData_GetCud(p) ==
  LET c == call[p]
      b == redisGetJson(cud, c.uid)
      presence == getOnlineStatus(c.uid)
  IN /\ c.pc = "gc_getCud"
     /\ IF b # NoBundle
        THEN Step(p, Return(c, Merge(b, presence)))
        ELSE Step(p, [c EXCEPT !.pc = "gc_query", !.presence = presence])
     /\ UNCHANGED <<cache, durable, clocks>>

\* the cache read of getCriticalUserData fails
GetCriticalUserData_CacheFault(p) ==
  /\ call[p].pc = "gc_getCud"
  /\ Step(p, Catch(call[p], ErrorObject("STORE_ERROR")))
  /\ UNCHANGED <<cache, durable, clocks>>

\* userRow?.rows?.[0] of the SELECT ... FROM users WHERE uid = $1 LIMIT 1
SelectUser(uid) == IF uid \in DOMAIN users THEN users[uid] ELSE NoRecord

Hydrated(record, presence) ==
  [username |-> record.username_lower,
   displayName |-> OrEmpty(record.display_name),
   avatar |-> OrEmpty(record.avatar_url),
   online |-> presence.online, status |-> presence.status]

\* the missing-row test dropped: an empty bundle is composed instead
BundleOf_placeholder(record, presence) ==
  IF record = NoRecord
  THEN [username |-> NoName, displayName |-> "", avatar |-> "",
        online |-> presence.online, status |-> presence.status]
  ELSE Hydrated(record, presence)

\* if (!record) return null; const hydrated = {...}
BundleOf(record, presence) ==
  IF record = NoRecord THEN Null ELSE Hydrated(record, presence)

\* const userRow = await db.query(SELECT ...); if (!record) return null;
\* then the bundle is composed and redisSetJson is called as a bare
\* identifier (Users.js:203): when that does not resolve, nothing is written
\* and the catch block returns its error object
GetCriticalUserData_Query(p, fault) ==
  LET c == [call[p] EXCEPT !.reads = @ + 1]
      hydrated == BundleOf(SelectUser(c.uid), c.presence)
  IN /\ call[p].pc = "gc_query"
     /\ IF fault
        THEN Step(p, Catch(c, ErrorObject("STORE_ERROR"))) /\ UNCHANGED <<cud, cudTtl>>
        ELSE IF hydrated = Null
        THEN Step(p, Return(c, Null)) /\ UNCHANGED <<cud, cudTtl>>
        ELSE IF ~Bound("redisSetJson")
        THEN /\ Step(p, Catch(c, ErrorObject("redisSetJson is not defined")))
             /\ UNCHANGED <<cud, cudTtl>>
        ELSE /\ cud' = Put(cud, c.uid, hydrated)
             /\ cudTtl' = Put(cudTtl, c.uid, Expiry(CRITICAL_USER_DATA_TTL))
             /\ Step(p, Return(c, hydrated))
     /\ UNCHANGED <<forward, reverse, override, summary, summaryTtl, durable, clocks>>

(***************************************************************************)
(* Users.getCriticalUsersData                                              *)
(***************************************************************************)
\* the uid lists a caller may pass: every list of up to MaxBatchLen known or
\* unknown uids (duplicates included), null, the empty list and a list one
\* longer than the limit
UidLists == {List(l) : l \in UNION {[1..n -> UIDS] : n \in 1..MaxBatchLen}}
OverLimit(max) == List([i \in 1..(max + 1) |-> "u1"])
BundleBatchInputs == UidLists \cup {NullList, List(<<>>), OverLimit(CUD_BATCH_MAX)}

\* { uid, ...fields }
Spread(uid, fields) ==
  [f \in {"uid"} \cup DOMAIN fields |-> IF f \in DOMAIN fields THEN fields[f] ELSE uid]

\* the object used for a miss that getCriticalUserData answers with null
Placeholder ==
  [username |-> NoName, displayName |-> "", avatar |-> "",
   online |-> FALSE, status |-> "offline"]

\* map.get(u) of new Map(results.map(r => [r.uid, r])): the last result
\* pushed for u
Undefined == [kind |-> "undefined"]
MapGet(results, u) ==
  LET at == {i \in 1..Len(results) : results[i].uid = u}
  IN IF at = {} THEN Undefined
     ELSE results[CHOOSE i \in at : \A j \in at : j <= i]

\* the results handed back as they were collected: hits, then misses
Ordered_asCollected(uids, results) == results

\* return vUids.map((u) => map.get(u))
Ordered(uids, results) == [i \in 1..Len(uids) |-> MapGet(results, uids[i])]

GetCriticalUsersData_Enter(p, uids) ==
  /\ LET c == BeginList(p, "getCriticalUsersData", uids)
     IN IF ~RequiredArray(uids, 1, CUD_BATCH_MAX)
        THEN Step(p, Catch(c, ListRet(<<>>)))
        ELSE Step(p, [c EXCEPT !.pc = "gm_mget"])
  /\ UNCHANGED <<cache, durable, clocks>>

\* the batch call goes on to its next miss, or returns
NextMiss(c) ==
  IF c.misses = <<>>
  THEN Return(c, ListRet(Ordered(c.uids.items, c.results)))
  ELSE [c EXCEPT !.pc = "gm_getCud"]

\* const rawValues = await RedisClient.mget(...keys); the loop that sorts the
\* uids into results (hits, with the stored bundle as it is) and misses
GetCriticalUsersData_Mget(p, fault) ==
  LET c == call[p]
      vUids == c.uids.items
      hits == SelectSeq(vUids, LAMBDA u : Has(cud, u))
  IN /\ c.pc = "gm_mget"
     /\ IF fault
        THEN Step(p, Catch(c, ListRet(<<>>)))
        ELSE Step(p, NextMiss([c EXCEPT
               !.results = [i \in 1..Len(hits) |-> Spread(hits[i], cud[hits[i]])],
               !.misses = SelectSeq(vUids, LAMBDA u : ~Has(cud, u))]))
     /\ UNCHANGED <<cache, durable, clocks>>

\* results.push({ uid: mUid, ...(one || placeholder) }) and the next turn of
\* the loop
Push(c, one) ==
  NextMiss([c EXCEPT
    !.results = Append(@, Spread(Head(c.misses), IF one = Null THEN Placeholder ELSE one)),
    !.misses = Tail(@), !.presence = IdleCall.presence])

\* const one = await this.getCriticalUserData(mUid), up to its cache read:
\* a hit is merged with the presence and pushed; a failure of the read is
\* caught by getCriticalUserData, whose error object is pushed
GetCriticalUsersData_GetCud(p, fault) ==
  LET c == call[p]
      mUid == Head(c.misses)
      b == redisGetJson(cud, mUid)
      presence == getOnlineStatus(mUid)
  IN /\ c.pc = "gm_getCud"
     /\ IF fault
        THEN Step(p, Push([c EXCEPT !.captured = TRUE], ErrorObject("STORE_ERROR")))
        ELSE IF b # NoBundle
        THEN Step(p, Push(c, Merge(b, presence)))
        ELSE Step(p, [c EXCEPT !.pc = "gm_query", !.presence = presence])
     /\ UNCHANGED <<cache, durable, clocks>>

\* getCriticalUserData(mUid) from its durable read on, and the push of what
\* it returns
GetCriticalUsersData_Query(p, fault) ==
  LET c == [call[p] EXCEPT !.reads = @ + 1]
      mUid == Head(c.misses)
      hydrated == BundleOf(SelectUser(mUid), c.presence)
  IN /\ call[p].pc = "gm_query"
     /\ IF fault
        THEN /\ Step(p, Push([c EXCEPT !.captured = TRUE], ErrorObject("STORE_ERROR")))
             /\ UNCHANGED <<cud, cudTtl>>
        ELSE IF hydrated = Null
        THEN Step(p, Push(c, Null)) /\ UNCHANGED <<cud, cudTtl>>
        ELSE IF ~Bound("redisSetJson")
        THEN /\ Step(p, Push([c EXCEPT !.captured = TRUE],
                             ErrorObject("redisSetJson is not defined")))
             /\ UNCHANGED <<cud, cudTtl>>
        ELSE /\ cud' = Put(cud, mUid, hydrated)
             /\ cudTtl' = Put(cudTtl, mUid, Expiry(CRITICAL_USER_DATA_TTL))
             /\ Step(p, Push(c, hydrated))
     /\ UNCHANGED <<forward, reverse, override, summary, summaryTtl, durable, clocks>>

(***************************************************************************)
(* Users.getBatchOnlineStatus                                              *)
(***************************************************************************)
PresenceBatchInputs == UidLists \cup {NullList, List(<<>>), OverLimit(PRESENCE_BATCH_MAX)}

\* the value of the catch block: { success: false, data: [], error }
BatchFailure(msg) == [kind |-> "failure", success |-> FALSE, data |-> <<>>, error |-> msg]

GetBatchOnlineStatus_Enter(p, uids) ==
  /\ LET c == BeginList(p, "getBatchOnlineStatus", uids)
     IN IF ~RequiredArray(uids, 1, PRESENCE_BATCH_MAX)
        THEN Step(p, Catch(c, BatchFailure("VALIDATION_ERROR")))
        ELSE Step(p, [c EXCEPT !.pc = "bo_overrides"])
  /\ UNCHANGED <<cache, durable, clocks>>

\* const overrides = await RedisClient.mget(...overrideKeys)
GetBatchOnlineStatus_Overrides(p, fault) ==
  LET c == call[p]
      vUids == c.uids.items
  IN /\ c.pc = "bo_overrides"
     /\ IF fault
        THEN Step(p, Catch(c, BatchFailure("STORE_ERROR")))
        ELSE Step(p, [c EXCEPT
               !.pc = "bo_summaries",
               !.overrides = [i \in 1..Len(vUids) |->
                                IF Has(override, vUids[i]) THEN override[vUids[i]] ELSE "null"]])
     /\ UNCHANGED <<cache, durable, clocks>>

\* one turn of the loop over vUids
BatchEntry(uid, ov, isOnline) ==
  IF ov = PRESENCE_MODE.OFFLINE THEN [uid |-> uid, online |-> FALSE, status |-> "offline"]
  ELSE IF ov = PRESENCE_MODE.AWAY THEN [uid |-> uid, online |-> TRUE, status |-> "away"]
  ELSE [uid |-> uid, online |-> isOnline, status |-> IF isOnline THEN "online" ELSE "offline"]

\* a loop that skips the uids for which neither key exists
Out_knownOnly(vUids, overrides, summaries) ==
  LET known == SelectSeq([i \in 1..Len(vUids) |-> i],
                         LAMBDA i : overrides[i] # "null" \/ summaries[i])
  IN [k \in 1..Len(known) |->
        BatchEntry(vUids[known[k]], overrides[known[k]], summaries[known[k]])]

\* the loop: out has one entry for each index of vUids
Out(vUids, overrides, summaries) ==
  [i \in 1..Len(vUids) |-> BatchEntry(vUids[i], overrides[i], summaries[i])]

\* the summaries read, followed by a durable query for the last activity
GetBatchOnlineStatus_Summaries_withQuery(p, fault) ==
  LET c == [call[p] EXCEPT !.reads = @ + 1]
      vUids == c.uids.items
      summaries == [i \in 1..Len(vUids) |-> Has(summary, vUids[i])]
  IN /\ c.pc = "bo_summaries"
     /\ IF fault
        THEN Step(p, Catch(c, BatchFailure("STORE_ERROR")))
        ELSE Step(p, Return(c, ListRet(Out(vUids, c.overrides, summaries))))
     /\ UNCHANGED <<cache, durable, clocks>>

\* const summaries = await RedisClient.mget(...summaryKeys); the loop; return out
GetBatchOnlineStatus_Summaries(p, fault) ==
  LET c == call[p]
      vUids == c.uids.items
      summaries == [i \in 1..Len(vUids) |-> Has(summary, vUids[i])]
  IN /\ c.pc = "bo_summaries"
     /\ IF fault
        THEN Step(p, Catch(c, BatchFailure("STORE_ERROR")))
        ELSE Step(p, Return(c, ListRet(Out(vUids, c.overrides, summaries))))
     /\ UNCHANGED <<cache, durable, clocks>>

(***************************************************************************)
(* Users.updateUserField                                                   *)
(***************************************************************************)
\* db/createTable.js: the columns of each table that the model carries
Schema ==
  [users |-> {"username_lower", "display_name", "avatar_url"},
   user_settings |-> {"presence_preference"},
   user_profiles |-> {"country"}]

Table(tableName) ==
  IF tableName = "users" THEN users
  ELSE IF tableName = "user_settings" THEN settings
  ELSE profiles

\* the statement is rejected by the database
SqlError(uid, tableName, fieldKey, value) ==
  \/ tableName \notin DOMAIN Schema
  \/ fieldKey \notin Schema[tableName]
  \/ tableName = "users" /\ fieldKey = "username_lower" /\ UniqueViolation(uid, value)

\* (tableName, fieldKey, value) a caller may pass
FieldInputs ==
  { <<"users", "display_name", "Ally">>,
    <<"users", "avatar_url", "/n.png">>,
    <<"users", "username_lower", zed>>,
    <<"user_profiles", "country", "AU">>,
    <<"users", "nickname", "al">>,
    <<"accounts", "country", "AU">> }

\* UPDATE ${vTable} SET ${vField} = $1, updated_at = NOW() WHERE uid = $2
\* the bundle cache is not touched
UpdateUserField_Enter(p, uid, tableName, fieldKey, value, fault) ==
  /\ LET c == [Begin(p, "updateUserField", uid) EXCEPT !.tableName = tableName,
                                                        !.fieldKey = fieldKey]
         q == [c EXCEPT !.queries = 1]
         rows == Table(tableName)
         updated == [rows EXCEPT ![uid][fieldKey] = value]
     IN IF ~RequiredString(uid)
        THEN Step(p, Catch(c, Failure("VALIDATION_ERROR"))) /\ UNCHANGED <<durable, age>>
        ELSE IF fault \/ SqlError(uid, tableName, fieldKey, value)
        THEN Step(p, Catch(q, Failure("STORE_ERROR"))) /\ UNCHANGED <<durable, age>>
        ELSE IF uid \notin DOMAIN rows
        THEN /\ Step(p, Catch(q, Failure("UpdateUserField_FAILED:user not found")))
             /\ UNCHANGED <<durable, age>>
        ELSE /\ Step(p, Return(q, Success(NoName)))
             /\ users' = IF tableName = "users" THEN updated ELSE users
             /\ settings' = IF tableName = "user_settings" THEN updated ELSE settings
             /\ profiles' = IF tableName = "user_profiles" THEN updated ELSE profiles
             /\ history' = IF tableName = "users" THEN Remember(updated) ELSE history
             /\ age' = IF tableName = "users" THEN Changed(updated) ELSE age
  /\ UNCHANGED <<cache, beat>>

UpdateUserField_Call(p, uid, tableName, fieldKey, value, fault) ==
  /\ CanCall(p)
  /\ Mutator(p)
  /\ UpdateUserField_Enter(p, uid, tableName, fieldKey, value, fault)

(***************************************************************************)
(* Users.getUserField                                                      *)
(***************************************************************************)
\* the SELECT is rejected by the database
SelectError(tableName, fieldKey) ==
  tableName \notin DOMAIN Schema \/ fieldKey \notin Schema[tableName]

\* SELECT ${vField} AS value FROM ${vTable} WHERE uid = $1 LIMIT 1
GetUserField_Enter(p, uid, tableName, fieldKey, fault) ==
  /\ LET c == [Begin(p, "getUserField", uid) EXCEPT !.tableName = tableName,
                                                     !.fieldKey = fieldKey, !.fault = fault]
         q == [c EXCEPT !.queries = 1]
         rows == Table(tableName)
     IN IF ~RequiredString(uid)
        THEN Step(p, Catch(c, Failure("VALIDATION_ERROR")))
        ELSE IF fault \/ SelectError(tableName, fieldKey)
        THEN Step(p, Catch(q, Failure("STORE_ERROR")))
        ELSE IF uid \notin DOMAIN rows
        THEN Step(p, Catch(q, Failure("GetUserField_FAILED")))
        ELSE Step(p, Return(q, [kind |-> "row", value |-> rows[uid][fieldKey]]))
  /\ UNCHANGED <<cache, durable, clocks>>

(***************************************************************************)
(* Users.buildUserSettings                                                 *)
(***************************************************************************)
\* the value of the catch block: {}
EmptyObject == [kind |-> "object"]

\* SELECT locale, notifications, call_video_message FROM user_settings: the
\* three columns are not carried, so the view notes whether a row was found
BuildUserSettings_Enter(p, uid, fault) ==
  /\ LET c == [Begin(p, "buildUserSettings", uid) EXCEPT !.fault = fault]
     IN IF ~RequiredString(uid) \/ fault
        THEN Step(p, Catch(c, EmptyObject))
        ELSE Step(p, Return(c, [kind |-> "settings", row |-> uid \in DOMAIN settings]))
  /\ UNCHANGED <<cache, durable, clocks>>

(***************************************************************************)
(* Users.buildUserData and Users.buildUserProfile                          *)
(***************************************************************************)
ViewOps == {"buildUserData", "buildUserProfile"}

View_Enter(p, op, uid) ==
  /\ LET c == Begin(p, op, uid)
     IN IF ~RequiredString(uid)
        THEN Step(p, Catch(c, Null))
        ELSE Step(p, [c EXCEPT !.pc = "vw_getCud"])
  /\ UNCHANGED <<cache, durable, clocks>>

\* obj.f || empty, for an object that may lack the field
FieldOr(obj, f, empty) == IF f \in DOMAIN obj THEN obj[f] ELSE empty

\* the call has the value `one` of its getCriticalUserData(vUid):
\* buildUserData returns null when it is falsy, buildUserProfile keeps it and
\* goes on to its two queries
AfterBundle(c, one) ==
  IF c.op = "buildUserData"
  THEN IF one = Null THEN Return(c, Null) ELSE [c EXCEPT !.pc = "bd_row", !.bundle = one]
  ELSE [c EXCEPT !.pc = "bp_user", !.bundle = one]

\* const cud = await this.getCriticalUserData(vUid), up to its cache read
View_GetCud(p, fault) ==
  LET c == call[p]
      b == redisGetJson(cud, c.uid)
      presence == getOnlineStatus(c.uid)
  IN /\ c.pc = "vw_getCud"
     /\ IF fault
        THEN Step(p, AfterBundle([c EXCEPT !.captured = TRUE], ErrorObject("STORE_ERROR")))
        ELSE IF b # NoBundle
        THEN Step(p, AfterBundle(c, Merge(b, presence)))
        ELSE Step(p, [c EXCEPT !.pc = "vw_query", !.presence = presence])
     /\ UNCHANGED <<cache, durable, clocks>>

\* getCriticalUserData(vUid) from its durable read on
View_Query(p, fault) ==
  LET c == [call[p] EXCEPT !.reads = @ + 1, !.presence = IdleCall.presence]
      hydrated == BundleOf(SelectUser(c.uid), call[p].presence)
  IN /\ call[p].pc = "vw_query"
     /\ IF fault
        THEN /\ Step(p, AfterBundle([c EXCEPT !.captured = TRUE], ErrorObject("STORE_ERROR")))
             /\ UNCHANGED <<cud, cudTtl>>
        ELSE IF hydrated = Null
        THEN Step(p, AfterBundle(c, Null)) /\ UNCHANGED <<cud, cudTtl>>
        ELSE IF ~Bound("redisSetJson")
        THEN /\ Step(p, AfterBundle([c EXCEPT !.captured = TRUE],
                                    ErrorObject("redisSetJson is not defined")))
             /\ UNCHANGED <<cud, cudTtl>>
        ELSE /\ cud' = Put(cud, c.uid, hydrated)
             /\ cudTtl' = Put(cudTtl, c.uid, Expiry(CRITICAL_USER_DATA_TTL))
             /\ Step(p, AfterBundle(c, hydrated))
     /\ UNCHANGED <<forward, reverse, override, summary, summaryTtl, durable, clocks>>

\* SELECT public_uid, role, is_new_user FROM users (columns not carried), and
\* the object built from the bundle
BuildUserData_Row(p, fault) ==
  LET c == call[p]
  IN /\ c.pc = "bd_row"
     /\ IF fault
        THEN Step(p, Catch(c, Null))
        ELSE Step(p, Return(c, [kind |-> "userData",
                                displayName |-> FieldOr(c.bundle, "displayName", ""),
                                userName |-> FieldOr(c.bundle, "username", NoName),
                                avatar |-> FieldOr(c.bundle, "avatar", "")]))
     /\ UNCHANGED <<cache, durable, clocks>>

\* SELECT public_uid FROM users WHERE uid = $1 LIMIT 1
BuildUserProfile_User(p, fault) ==
  LET c == call[p]
  IN /\ c.pc = "bp_user"
     /\ IF fault
        THEN Step(p, Catch(c, Null))
        ELSE Step(p, [c EXCEPT !.pc = "bp_profile"])
     /\ UNCHANGED <<cache, durable, clocks>>

\* if (!cud) return null
NoBundleFor(one) == one = Null

\* SELECT bio, ..., country, ... FROM user_profiles WHERE uid = $1 LIMIT 1;
\* if (!cud) return null; the profile object
BuildUserProfile_Profile(p, fault) ==
  LET c == call[p]
      prof == IF c.uid \in DOMAIN profiles THEN profiles[c.uid] ELSE [country |-> SqlNull]
  IN /\ c.pc = "bp_profile"
     /\ IF fault
        THEN Step(p, Catch(c, Null))
        ELSE IF NoBundleFor(c.bundle)
        THEN Step(p, Return(c, Null))
        ELSE Step(p, Return(c, [kind |-> "profile", uid |-> c.uid,
                                displayName |-> FieldOr(c.bundle, "displayName", ""),
                                userName |-> FieldOr(c.bundle, "username", NoName),
                                avatar |-> FieldOr(c.bundle, "avatar", ""),
                                country |-> OrEmpty(prof.country)]))
     /\ UNCHANGED <<cache, durable, clocks>>

(***************************************************************************)
(* Users.setPresenceOverride                                               *)
(***************************************************************************)
ModeInputs == {"real", "away", "offline", "weirdmode"}

\* the mode is validated as a required string only
SetPresenceOverride_Enter(p, uid, mode) ==
  /\ LET c == [Begin(p, "setPresenceOverride", uid) EXCEPT !.mode = mode]
     IN IF ~RequiredString(uid) \/ ~RequiredString(mode)
        THEN Step(p, Catch(c, Failure("VALIDATION_ERROR")))
        ELSE Step(p, [c EXCEPT !.pc = "po_set"])
  /\ UNCHANGED <<cache, durable, clocks>>

SetPresenceOverride_Call(p, uid, mode) ==
  /\ CanCall(p)
  /\ Mutator(p)
  /\ SetPresenceOverride_Enter(p, uid, mode)

\* await RedisClient.set(this.keyPresenceOverride(vUid), vMode)
SetPresenceOverride_Set(p) ==
  LET c == call[p]
  IN /\ c.pc = "po_set"
     /\ override' = Put(override, c.uid, c.mode)
     /\ Step(p, [c EXCEPT !.pc = "po_del"])
     /\ UNCHANGED <<forward, reverse, cud, cudTtl, summary, summaryTtl, durable, clocks>>

\* the bundle entry left in place by the override write
SetPresenceOverride_Del_skipped(p) ==
  LET c == call[p]
  IN /\ c.pc = "po_del"
     /\ Step(p, [c EXCEPT !.pc = "po_update"])
     /\ UNCHANGED <<cache, durable, clocks>>

\* await RedisClient.del(this.keyCriticalUserData(vUid))
SetPresenceOverride_Del(p) ==
  LET c == call[p]
  IN /\ c.pc = "po_del"
     /\ cud' = Del(cud, c.uid)
     /\ cudTtl' = Del(cudTtl, c.uid)
     /\ Step(p, [c EXCEPT !.pc = "po_update"])
     /\ UNCHANGED <<forward, reverse, override, summary, summaryTtl, durable, clocks>>

\* UPDATE user_settings SET presence_preference = $1 ... RETURNING *
\* if (!result?.rows[0]) throw new Error("PERSISTENCE_FAILED")
SetPresenceOverride_Update(p, fault) ==
  LET c == call[p]
  IN /\ c.pc = "po_update"
     /\ IF fault
        THEN Step(p, Catch(c, Failure("STORE_ERROR"))) /\ UNCHANGED settings
        ELSE IF c.uid \notin DOMAIN settings
        THEN Step(p, Catch(c, Failure("PERSISTENCE_FAILED"))) /\ UNCHANGED settings
        ELSE /\ settings' = [settings EXCEPT ![c.uid].presence_preference = c.mode]
             /\ Step(p, Return(c, [kind |-> "row", presence_preference |-> c.mode]))
     /\ UNCHANGED <<cache, users, profiles, history, clocks>>

(***************************************************************************)
(* Users.updatePresenceFromSocket                                          *)
(***************************************************************************)
ConnInputs == {"conn-xyz", ""}

UpdatePresenceFromSocket_Enter(p, uid, connId) ==
  /\ LET c == Begin(p, "updatePresenceFromSocket", uid)
     IN IF ~RequiredString(uid) \/ ~RequiredString(connId)
        THEN Step(p, Catch(c, Failure("VALIDATION_ERROR")))
        ELSE Step(p, [c EXCEPT !.pc = "ps_set"])
  /\ UNCHANGED <<cache, durable, clocks>>

UpdatePresenceFromSocket_Call(p, uid, connId) ==
  /\ CanCall(p)
  /\ Mutator(p)
  /\ UpdatePresenceFromSocket_Enter(p, uid, connId)

\* await RedisClient.set(this.keyPresenceSummary(vUid), "1", {expiry: PRESENCE_TTL})
UpdatePresenceFromSocket_Set(p) ==
  LET c == call[p]
  IN /\ c.pc = "ps_set"
     /\ summary' = Put(summary, c.uid, "1")
     /\ summaryTtl' = Put(summaryTtl, c.uid, PRESENCE_TTL)
     /\ Step(p, [c EXCEPT !.pc = "ps_update"])
     /\ UNCHANGED <<forward, reverse, cud, cudTtl, override, durable, clocks>>

\* UPDATE users SET last_activity_at = NOW() WHERE uid = $1 AND (...)
\* the statement sits in the method's single try block: if it throws, the
\* catch block returns a failure and the delete below is not reached.
\* last_activity_at is not read by any operation and is not carried.
UpdatePresenceFromSocket_Update(p, fault) ==
  LET c == call[p]
  IN /\ c.pc = "ps_update"
     /\ IF fault
        THEN Step(p, Catch(c, Failure("STORE_ERROR")))
        ELSE Step(p, [c EXCEPT !.pc = "ps_del"])
     /\ UNCHANGED <<cache, durable, clocks>>

\* await RedisClient.del(this.keyCriticalUserData(vUid)); return update
UpdatePresenceFromSocket_Del(p) ==
  LET c == call[p]
  IN /\ c.pc = "ps_del"
     /\ cud' = Del(cud, c.uid)
     /\ cudTtl' = Del(cudTtl, c.uid)
     /\ Step(p, Return(c, [kind |-> "update"]))
     /\ beat' = [beat EXCEPT ![c.uid] = 0]
     /\ UNCHANGED <<forward, reverse, override, summary, summaryTtl, durable, age>>

\* a cache call of setPresenceOverride or updatePresenceFromSocket fails
PresenceCacheSteps == {"po_set", "po_del", "ps_set", "ps_del"}

Presence_CacheFault(p) ==
  /\ call[p].pc \in PresenceCacheSteps
  /\ Step(p, Catch(call[p], Failure("STORE_ERROR")))
  /\ UNCHANGED <<cache, durable, clocks>>

(***************************************************************************)
(* The cache tier drops a key written with an expiry once its TTL has run  *)
(* out: the heartbeat summary (PRESENCE_TTL) and the bundle entry          *)
(* (CRITICAL_USER_DATA_TTL).                                               *)
(***************************************************************************)
Expire(uid) ==
  /\ \/ /\ Has(summary, uid)
        /\ summary' = Del(summary, uid) /\ summaryTtl' = Del(summaryTtl, uid)
        /\ UNCHANGED <<cud, cudTtl>>
     \/ /\ Has(cud, uid) /\ cudTtl[uid] > 0
        /\ cud' = Del(cud, uid) /\ cudTtl' = Del(cudTtl, uid)
        /\ UNCHANGED <<summary, summaryTtl>>
  /\ UNCHANGED <<forward, reverse, override, durable, clocks, call>>

(***************************************************************************)
(* TickSeconds pass between two calls.  Every key written with an expiry   *)
(* has that much less to live and is dropped once nothing is left; a key   *)
(* written without expiry (0) stays.  The clocks run on, up to MaxAge.     *)
(***************************************************************************)
Later(clock) ==
  [u \in DOMAIN clock |->
     IF clock[u] = Never THEN Never
     ELSE IF clock[u] + TickSeconds > MaxAge THEN MaxAge
     ELSE clock[u] + TickSeconds]

Alive(ttl) == {k \in DOMAIN ttl : ttl[k] = 0 \/ ttl[k] > TickSeconds}

Remaining(ttl) ==
  [k \in Alive(ttl) |-> IF ttl[k] = 0 THEN 0 ELSE ttl[k] - TickSeconds]

Elapse ==
  /\ \A p \in Procs : ~InFlight(call[p])
  /\ \E u \in UIDS : age[u] < MaxAge
  /\ age' = Later(age)
  /\ beat' = Later(beat)
  /\ cud' = [k \in Alive(cudTtl) |-> cud[k]]
  /\ cudTtl' = Remaining(cudTtl)
  /\ summary' = [k \in Alive(summaryTtl) |-> summary[k]]
  /\ summaryTtl' = Remaining(summaryTtl)
  /\ UNCHANGED <<forward, reverse, override, durable, call>>

(***************************************************************************)
(* Initial state: the durable tier as db/seedUser.js leaves it (u1 and u2  *)
(* have rows, u3 has none; avatar_url is nullable and u2 has none), an     *)
(* empty username registry and no presence keys.  The cache tier outlives  *)
(* the process, so a bundle entry for u1 written by an earlier hydration   *)
(* may be present; its stored online/status are those of that time.        *)
(***************************************************************************)
SeedUsers ==
  [u \in {"u1", "u2"} |->
     IF u = "u1"
     THEN [username_lower |-> alice, display_name |-> "Alice Doe", avatar_url |-> "/a.png"]
     ELSE [username_lower |-> bob, display_name |-> "Bob Smith", avatar_url |-> SqlNull]]

SeedBundle ==
  [username |-> alice, displayName |-> "Alice Doe", avatar |-> "/a.png",
   online |-> TRUE, status |-> "online"]

Init ==
  /\ forward = Empty
  /\ reverse = Empty
  /\ cud \in {Empty, [u \in {"u1"} |-> SeedBundle]}
  /\ cudTtl = [u \in DOMAIN cud |-> Expiry(CRITICAL_USER_DATA_TTL)]
  /\ override = Empty
  /\ summary = Empty
  /\ summaryTtl = Empty
  /\ users = SeedUsers
  /\ settings = [u \in {"u1", "u2"} |->
                   [presence_preference |-> IF u = "u1" THEN "online" ELSE "away"]]
  /\ profiles = [u \in {"u1", "u2"} |-> [country |-> SqlNull]]
  /\ history = [u \in UIDS |-> IF u \in DOMAIN SeedUsers THEN {SeedUsers[u]} ELSE {}]
  /\ age = [u \in UIDS |-> 0]
  /\ beat = [u \in UIDS |-> Never]
  /\ call = [p \in Procs |-> IdleCall]

(***************************************************************************)
(* Spec: presence, bundle cache and field accessor.                        *)
(* SpecRegistry: concurrent username claims.                               *)
(***************************************************************************)
SetUsernameSteps ==
  \/ \E p \in Procs : SetUsername_GetOwner(p)
  \/ \E p \in Procs : SetUsername_GetOld(p)
  \/ \E p \in Procs : SetUsername_SetMap(p)
  \/ \E p \in Procs : SetUsername_SetMirror(p)
  \/ \E p \in Procs, fault \in BOOLEAN : SetUsername_Update(p, fault)
  \/ \E p \in Procs : SetUsername_GetCud(p)
  \/ \E p \in Procs : SetUsername_SetCud(p)
  \/ \E p \in Procs : SetUsername_GetCurr(p)
  \/ \E p \in Procs : SetUsername_Del(p)
  \/ \E p \in Procs : SetUsername_CacheFault(p)

NextRegistry ==
  \/ \E p \in Procs, uid \in UidInputs, username \in RawNames : SetUsername_Call(p, uid, username)
  \/ \E p \in Procs, username \in RawNames : IsUsernameTaken_Call(p, username)
  \/ SetUsernameSteps

Next ==
  \/ \E p \in Procs, uid \in UidInputs : GetOnlineStatus_Call(p, uid)
  \/ \E p \in Procs, uid \in UidInputs : GetCriticalUserData_Call(p, uid)
  \/ \E p \in Procs : GetCriticalUserData_GetCud(p)
  \/ \E p \in Procs, fault \in BOOLEAN : GetCriticalUserData_Query(p, fault)
  \/ \E p \in Procs, uid \in UidInputs, f \in FieldInputs, fault \in BOOLEAN :
        UpdateUserField_Call(p, uid, f[1], f[2], f[3], fault)
  \/ \E p \in Procs, uid \in UidInputs, mode \in ModeInputs : SetPresenceOverride_Call(p, uid, mode)
  \/ \E p \in Procs : SetPresenceOverride_Set(p)
  \/ \E p \in Procs : SetPresenceOverride_Del(p)
  \/ \E p \in Procs, fault \in BOOLEAN : SetPresenceOverride_Update(p, fault)
  \/ \E p \in Procs, uid \in UidInputs, connId \in ConnInputs :
        UpdatePresenceFromSocket_Call(p, uid, connId)
  \/ \E p \in Procs : UpdatePresenceFromSocket_Set(p)
  \/ \E p \in Procs, fault \in BOOLEAN : UpdatePresenceFromSocket_Update(p, fault)
  \/ \E p \in Procs : UpdatePresenceFromSocket_Del(p)
  \/ \E uid \in UIDS : Expire(uid)

\* SpecBundle: one writer (p1) issues field updates, username claims and
\* heartbeats for u1 while one reader (p2) reads u1's bundle
CanCallBundle(p) ==
  /\ ~InFlight(call[p])
  /\ call["p1"].n + call["p2"].n < MaxBundleOps
  /\ p = "p2" => call["p1"].pc # "idle"

BundleNames == {zed, <<" ","A","l","i","c","E"," ">>}
BundleFieldInputs == {f \in FieldInputs : f[1] = "users" /\ f[2] \in {"display_name", "avatar_url"}}

Bundle_SetUsername(username) ==
  CanCallBundle("p1") /\ SetUsername_Enter("p1", "u1", username)

Bundle_UpdateUserField(f) ==
  CanCallBundle("p1") /\ UpdateUserField_Enter("p1", "u1", f[1], f[2], f[3], FALSE)

Bundle_Heartbeat ==
  CanCallBundle("p1") /\ UpdatePresenceFromSocket_Enter("p1", "u1", "conn-xyz")

Bundle_Read ==
  CanCallBundle("p2") /\ GetCriticalUserData_Enter("p2", "u1")

NextBundle ==
  \/ \E username \in BundleNames : Bundle_SetUsername(username)
  \/ \E f \in BundleFieldInputs : Bundle_UpdateUserField(f)
  \/ Bundle_Heartbeat
  \/ Bundle_Read
  \/ SetUsernameSteps
  \/ \E p \in Procs : GetCriticalUserData_GetCud(p)
  \/ \E p \in Procs, fault \in BOOLEAN : GetCriticalUserData_Query(p, fault)
  \/ \E p \in Procs : UpdatePresenceFromSocket_Set(p)
  \/ \E p \in Procs, fault \in BOOLEAN : UpdatePresenceFromSocket_Update(p, fault)
  \/ \E p \in Procs : UpdatePresenceFromSocket_Del(p)

Spec == Init /\ [][Next]_vars

(***************************************************************************)
(* SpecRename: two uids claim and rename among two names, three calls.     *)
(***************************************************************************)
CanCallRename(p) ==
  /\ ~InFlight(call[p])
  /\ call["p1"].n + call["p2"].n < MaxRenameOps
  /\ p = "p2" => call["p1"].pc # "idle"

RenameUids == {"u1", "u2"}
RenameNames == {bob, zed}

Rename_SetUsername(p, uid, username) ==
  CanCallRename(p) /\ SetUsername_Enter(p, uid, username)

NextRename ==
  \/ \E p \in Procs, uid \in RenameUids, username \in RenameNames :
        Rename_SetUsername(p, uid, username)
  \/ SetUsernameSteps

SpecRename == Init /\ [][NextRename]_vars

(***************************************************************************)
(* SpecBatch: the batch reads of p2, beside the presence writes of p1.      *)
(***************************************************************************)
CanCallBatch(p) ==
  /\ ~InFlight(call[p])
  /\ call["p1"].n + call["p2"].n < MaxBatchOps

\* u1 sets overrides, u2 sends heartbeats, u3 is unknown to both tiers
BatchModes == {PRESENCE_MODE.AWAY, PRESENCE_MODE.OFFLINE}
BatchOverrideUids == {"u1"}
BatchHeartbeatUids == {"u2"}

Batch_Heartbeat(uid) ==
  CanCallBatch("p1") /\ UpdatePresenceFromSocket_Enter("p1", uid, "conn-xyz")

Batch_Override(uid, mode) ==
  CanCallBatch("p1") /\ SetPresenceOverride_Enter("p1", uid, mode)

Batch_Bundles(uids) == CanCallBatch("p2") /\ GetCriticalUsersData_Enter("p2", uids)

Batch_Presence(uids) == CanCallBatch("p2") /\ GetBatchOnlineStatus_Enter("p2", uids)

NextBatch ==
  \/ \E uid \in BatchHeartbeatUids : Batch_Heartbeat(uid)
  \/ \E uid \in BatchOverrideUids, mode \in BatchModes : Batch_Override(uid, mode)
  \/ \E uids \in BundleBatchInputs : Batch_Bundles(uids)
  \/ \E uids \in PresenceBatchInputs : Batch_Presence(uids)
  \/ \E p \in Procs, fault \in BOOLEAN : GetCriticalUsersData_Mget(p, fault)
  \/ \E p \in Procs, fault \in BOOLEAN : GetCriticalUsersData_GetCud(p, fault)
  \/ \E p \in Procs, fault \in BOOLEAN : GetCriticalUsersData_Query(p, fault)
  \/ \E p \in Procs, fault \in BOOLEAN : GetBatchOnlineStatus_Overrides(p, fault)
  \/ \E p \in Procs, fault \in BOOLEAN : GetBatchOnlineStatus_Summaries(p, fault)
  \/ \E p \in Procs : SetPresenceOverride_Set(p)
  \/ \E p \in Procs : SetPresenceOverride_Del(p)
  \/ \E p \in Procs, fault \in BOOLEAN : SetPresenceOverride_Update(p, fault)
  \/ \E p \in Procs : UpdatePresenceFromSocket_Set(p)
  \/ \E p \in Procs, fault \in BOOLEAN : UpdatePresenceFromSocket_Update(p, fault)
  \/ \E p \in Procs : UpdatePresenceFromSocket_Del(p)

SpecBatch == Init /\ [][NextBatch]_vars

(***************************************************************************)
(* SpecCalls: p1 calls the public operations one after another, with each  *)
(* tier free to fail any of the calls made to it.                          *)
(***************************************************************************)
CanCallNext(p) == p = "p1" /\ ~InFlight(call[p]) /\ call[p].n < MaxCalls

CallsUids == {"u1", "u2", "u3", ""}
CallsNames == {zed, bob, <<"b","o","!">>, <<>>}
CallsLists == {List(<<"u1", "u3">>), List(<<"u2">>), NullList}
CallsFields == {<<"users", "display_name", "Ally">>, <<"accounts", "country", "AU">>}

Calls_Enter(p) ==
  \/ \E uid \in CallsUids : GetCriticalUserData_Enter(p, uid)
  \/ \E uids \in CallsLists : GetCriticalUsersData_Enter(p, uids)
  \/ \E uid \in CallsUids, fault \in BOOLEAN : GetOnlineStatus_Enter(p, uid, fault)
  \/ \E uids \in CallsLists : GetBatchOnlineStatus_Enter(p, uids)
  \/ \E uid \in CallsUids, connId \in ConnInputs : UpdatePresenceFromSocket_Enter(p, uid, connId)
  \/ \E uid \in CallsUids, mode \in BatchModes : SetPresenceOverride_Enter(p, uid, mode)
  \/ \E username \in CallsNames, fault \in BOOLEAN : IsUsernameTaken_Enter(p, username, fault)
  \/ \E uid \in CallsUids, username \in CallsNames : SetUsername_Enter(p, uid, username)
  \/ \E uid \in CallsUids, f \in CallsFields, fault \in BOOLEAN :
        GetUserField_Enter(p, uid, f[1], f[2], fault)
  \/ \E uid \in CallsUids, f \in CallsFields, fault \in BOOLEAN :
        UpdateUserField_Enter(p, uid, f[1], f[2], f[3], fault)
  \/ \E uid \in CallsUids, op \in ViewOps : View_Enter(p, op, uid)
  \/ \E uid \in CallsUids, fault \in BOOLEAN : BuildUserSettings_Enter(p, uid, fault)

NextCalls ==
  \/ \E p \in Procs : CanCallNext(p) /\ Calls_Enter(p)
  \/ SetUsernameSteps
  \/ \E p \in Procs : GetCriticalUserData_GetCud(p)
  \/ \E p \in Procs : GetCriticalUserData_CacheFault(p)
  \/ \E p \in Procs, fault \in BOOLEAN : GetCriticalUserData_Query(p, fault)
  \/ \E p \in Procs, fault \in BOOLEAN : GetCriticalUsersData_Mget(p, fault)
  \/ \E p \in Procs, fault \in BOOLEAN : GetCriticalUsersData_GetCud(p, fault)
  \/ \E p \in Procs, fault \in BOOLEAN : GetCriticalUsersData_Query(p, fault)
  \/ \E p \in Procs, fault \in BOOLEAN : GetBatchOnlineStatus_Overrides(p, fault)
  \/ \E p \in Procs, fault \in BOOLEAN : GetBatchOnlineStatus_Summaries(p, fault)
  \/ \E p \in Procs : SetPresenceOverride_Set(p)
  \/ \E p \in Procs : SetPresenceOverride_Del(p)
  \/ \E p \in Procs, fault \in BOOLEAN : SetPresenceOverride_Update(p, fault)
  \/ \E p \in Procs : UpdatePresenceFromSocket_Set(p)
  \/ \E p \in Procs, fault \in BOOLEAN : UpdatePresenceFromSocket_Update(p, fault)
  \/ \E p \in Procs : UpdatePresenceFromSocket_Del(p)
  \/ \E p \in Procs : Presence_CacheFault(p)
  \/ \E p \in Procs, fault \in BOOLEAN : View_GetCud(p, fault)
  \/ \E p \in Procs, fault \in BOOLEAN : View_Query(p, fault)
  \/ \E p \in Procs, fault \in BOOLEAN : BuildUserData_Row(p, fault)
  \/ \E p \in Procs, fault \in BOOLEAN : BuildUserProfile_User(p, fault)
  \/ \E p \in Procs, fault \in BOOLEAN : BuildUserProfile_Profile(p, fault)

SpecCalls == Init /\ [][NextCalls]_vars

(***************************************************************************)
(* SpecTimed: p1 calls the operations on u1 one after another while time   *)
(* passes between the calls; no store call fails.                          *)
(***************************************************************************)
CanCallTimed(p) == p = "p1" /\ ~InFlight(call[p]) /\ call[p].n < MaxTimedOps

TimedNames == {alice, zed}
TimedModes == {PRESENCE_MODE.AWAY, PRESENCE_MODE.REAL}

Timed_Enter(p) ==
  \/ GetCriticalUserData_Enter(p, "u1")
  \/ GetOnlineStatus_Enter(p, "u1", FALSE)
  \/ UpdatePresenceFromSocket_Enter(p, "u1", "conn-xyz")
  \/ \E mode \in TimedModes : SetPresenceOverride_Enter(p, "u1", mode)
  \/ \E username \in TimedNames : SetUsername_Enter(p, "u1", username)
  \/ UpdateUserField_Enter(p, "u1", "users", "display_name", "Ally", FALSE)

NextTimed ==
  \/ \E p \in Procs : CanCallTimed(p) /\ Timed_Enter(p)
  \/ Elapse
  \/ \E p \in Procs : SetUsername_GetOwner(p)
  \/ \E p \in Procs : SetUsername_GetOld(p)
  \/ \E p \in Procs : SetUsername_SetMap(p)
  \/ \E p \in Procs : SetUsername_SetMirror(p)
  \/ \E p \in Procs : SetUsername_Update(p, FALSE)
  \/ \E p \in Procs : SetUsername_GetCud(p)
  \/ \E p \in Procs : SetUsername_SetCud(p)
  \/ \E p \in Procs : SetUsername_GetCurr(p)
  \/ \E p \in Procs : SetUsername_Del(p)
  \/ \E p \in Procs : GetCriticalUserData_GetCud(p)
  \/ \E p \in Procs : GetCriticalUserData_Query(p, FALSE)
  \/ \E p \in Procs : SetPresenceOverride_Set(p)
  \/ \E p \in Procs : SetPresenceOverride_Del(p)
  \/ \E p \in Procs : SetPresenceOverride_Update(p, FALSE)
  \/ \E p \in Procs : UpdatePresenceFromSocket_Set(p)
  \/ \E p \in Procs : UpdatePresenceFromSocket_Update(p, FALSE)
  \/ \E p \in Procs : UpdatePresenceFromSocket_Del(p)

SpecTimed == Init /\ [][NextTimed]_vars

(***************************************************************************)
(* SpecHydrate: p1 claims a username for u1 while p2 reads u1's bundle and *)
(* the bundle entry may expire at any moment.                              *)
(***************************************************************************)
CanCallHydrate(p) ==
  /\ ~InFlight(call[p])
  /\ call["p1"].n + call["p2"].n < MaxHydrateOps

Hydrate_SetUsername(username) ==
  CanCallHydrate("p1") /\ SetUsername_Enter("p1", "u1", username)

Hydrate_Read ==
  CanCallHydrate("p2") /\ GetCriticalUserData_Enter("p2", "u1")

NextHydrate ==
  \/ \E username \in TimedNames : Hydrate_SetUsername(username)
  \/ Hydrate_Read
  \/ SetUsernameSteps
  \/ \E p \in Procs : GetCriticalUserData_GetCud(p)
  \/ \E p \in Procs, fault \in BOOLEAN : GetCriticalUserData_Query(p, fault)
  \/ Expire("u1")

SpecHydrate == Init /\ [][NextHydrate]_vars

SpecRegistry == Init /\ [][NextRegistry]_vars

SpecBundle == Init /\ [][NextBundle]_vars

(***************************************************************************)
(* Properties.                                                             *)
(***************************************************************************)
\* process p takes a step of its own call
Acts(p) == call'[p].n # call[p].n \/ call'[p].pc # call[p].pc

\* process p's call returns in this step
Returns(p) == Acts(p) /\ call'[p].pc = "done"

Completed(p, op) == call[p].pc = "done" /\ call[p].op = op

StoreError == ErrorObject("STORE_ERROR")

\* uids whose reverse entry is n, and the uid its forward entry names
Owners(n) ==
  {u \in DOMAIN reverse : reverse[u] = n}
    \cup (IF Has(forward, n) THEN {forward[n]} ELSE {})

\* C1: of two setUsername calls by different uids for the same normalised
\* name at most one returns success, and at every moment a name has at most
\* one owner.
C1_SingleOwner ==
  /\ \A n \in Names : Cardinality(Owners(n)) <= 1
  /\ ~(\E p, q \in Procs :
         /\ p # q
         /\ Completed(p, "setUsername") /\ Completed(q, "setUsername")
         /\ call[p].ret.success /\ call[q].ret.success
         /\ call[p].name = call[q].name
         /\ call[p].uid # call[q].uid)

\* C2: when the owner read of setUsername(caller, u) finds a forward entry for
\* u that names another uid, the call returns success:false and no cache key
\* and no durable row changes.
C2_TakenIsRejected ==
  [][\A p \in Procs :
       (/\ Acts(p)
        /\ call[p].pc = "su_getOwner"
        /\ Has(forward, call[p].name)
        /\ forward[call[p].name] # call[p].uid)
       => (/\ call'[p].pc = "done"
           /\ call'[p].ret.success = FALSE
           /\ UNCHANGED <<cache, durable, clocks>>)]_vars

\* a setUsername call has been refused because another uid owns the name
C2_Witness ==
  \E p \in Procs :
    /\ Completed(p, "setUsername")
    /\ call[p].ret = Failure("USERNAME_TAKEN")
    /\ Has(forward, call[p].name)
    /\ forward[call[p].name] # call[p].uid

\* C3: in every reachable state at most one forward entry names a given uid.
C3_OneForwardEntryPerUid ==
  \A u \in UIDS : Cardinality({n \in DOMAIN forward : forward[n] = u}) <= 1

\* C4: when setUsername(uid, u) returns success with no concurrent actor, the
\* durable username_lower of uid and the reverse entry of uid both equal the
\* normalised u.
C4_DurableEqualsMirror ==
  [][\A p \in Procs :
       (/\ Returns(p)
        /\ call'[p].op = "setUsername"
        /\ call'[p].ret.success
        /\ call[p].solo)
       => (/\ Has(reverse', call'[p].uid)
           /\ reverse'[call'[p].uid] = call'[p].name
           /\ call'[p].uid \in DOMAIN users'
           /\ users'[call'[p].uid].username_lower = call'[p].name)]_vars

\* the presence the override and heartbeat keys of uid stand for
ClaimedPresence(uid) ==
  IF Has(override, uid) /\ override[uid] = "offline" THEN Presence(FALSE, "offline")
  ELSE IF Has(override, uid) /\ override[uid] = "away" THEN Presence(TRUE, "away")
  ELSE IF Has(summary, uid) THEN Presence(TRUE, "online")
  ELSE Presence(FALSE, "offline")

\* C5: getOnlineStatus(uid) returns offline for override offline, online+away
\* for override away, and otherwise online or offline as the heartbeat summary
\* is present or absent.
C5_PresencePrecedence ==
  [][\A p \in Procs :
       (Returns(p) /\ call'[p].op = "getOnlineStatus" /\ call'[p].uid \in UIDS)
       => call'[p].ret = ClaimedPresence(call'[p].uid)]_vars

\* C6: on a cache hit getCriticalUserData(uid) returns the cached username,
\* displayName and avatar with online/status resolved at read time from the
\* override and heartbeat keys.
C6_HitMergesLivePresence ==
  [][\A p \in Procs :
       (Acts(p) /\ call[p].pc = "gc_getCud" /\ Has(cud, call[p].uid))
       => call'[p].ret =
            [username |-> cud[call[p].uid].username,
             displayName |-> cud[call[p].uid].displayName,
             avatar |-> cud[call[p].uid].avatar,
             online |-> ClaimedPresence(call[p].uid).online,
             status |-> ClaimedPresence(call[p].uid).status]]_vars

\* C7: for a uid with a row and no bundle entry, getCriticalUserData performs
\* exactly one durable read and writes cud:{uid}; a call that then finds the
\* entry performs no durable read.
C7_HydrateOnceThenHit ==
  [][\A p \in Procs :
       /\ (/\ Returns(p)
           /\ call[p].pc = "gc_query"
           /\ call[p].uid \in DOMAIN users
           /\ call'[p].ret # StoreError)
          => (call'[p].reads = 1 /\ Has(cud', call[p].uid))
       /\ (Acts(p) /\ call[p].pc = "gc_getCud" /\ Has(cud, call[p].uid))
          => (call'[p].pc = "done" /\ call'[p].reads = 0)]_vars

PresenceValues ==
  {Presence(FALSE, "offline"), Presence(TRUE, "away"), Presence(TRUE, "online")}

\* C8: on a cache miss for a uid with a row, getCriticalUserData returns the
\* row's username, displayName and avatar ("" for a NULL column) with the
\* resolved online/status, offline when no presence key exists.
C8_MissReturnsRow ==
  [][\A p \in Procs :
       (/\ Returns(p)
        /\ call[p].pc = "gc_query"
        /\ call[p].uid \in DOMAIN users
        /\ call'[p].ret # StoreError)
       => \E pr \in PresenceValues :
            /\ call'[p].ret =
                 [username |-> users[call[p].uid].username_lower,
                  displayName |-> OrEmpty(users[call[p].uid].display_name),
                  avatar |-> OrEmpty(users[call[p].uid].avatar_url),
                  online |-> pr.online, status |-> pr.status]
            /\ (~Has(override, call[p].uid) /\ ~Has(summary, call[p].uid))
                 => pr = Presence(FALSE, "offline")]_vars

\* C9: for a uid with no cache entries and no identity row, a
\* getCriticalUserData whose durable read succeeds returns null and writes no
\* cache entry, and getOnlineStatus returns offline.
C9_UnknownUidIsAbsent ==
  [][\A p \in Procs :
       /\ (/\ Returns(p)
           /\ call[p].pc = "gc_query"
           /\ call[p].uid \notin DOMAIN users
           /\ call'[p].ret # StoreError)
          => (call'[p].ret = Null /\ cache' = cache)
       /\ (/\ Returns(p)
           /\ call'[p].op = "getOnlineStatus"
           /\ call'[p].uid \in UIDS \ DOMAIN users
           /\ ~Has(override, call'[p].uid) /\ ~Has(summary, call'[p].uid))
          => (call'[p].ret = Presence(FALSE, "offline") /\ cache' = cache)]_vars

\* both reads have been answered for a uid that is in neither tier
C9_Witness ==
  \E p, q \in Procs :
    /\ Completed(p, "getCriticalUserData")
    /\ call[p].uid \in UIDS \ DOMAIN users
    /\ call[p].reads = 1
    /\ call[p].ret = Null
    /\ Completed(q, "getOnlineStatus")
    /\ call[q].uid = call[p].uid
    /\ call[q].ret = Presence(FALSE, "offline")
    /\ \A m \in {cud, override, summary} : ~Has(m, call[p].uid)

BundleFields == {"username_lower", "display_name", "avatar_url"}

\* C10: when updateUserField(uid, 'users', field, v) returns success for a
\* field that feeds the bundle, cud:{uid} does not exist when it returns.
C10_FieldWriteInvalidatesBundle ==
  [][\A p \in Procs :
       (/\ Returns(p)
        /\ call'[p].op = "updateUserField"
        /\ call'[p].ret = Success(NoName)
        /\ call'[p].tableName = "users"
        /\ call'[p].fieldKey \in BundleFields)
       => ~Has(cud', call'[p].uid)]_vars

\* the call of p returned what the operation returns when nothing was thrown
ReturnedNormally(c) ==
  \/ c.op = "updatePresenceFromSocket" /\ c.ret = [kind |-> "update"]
  \/ c.op = "setPresenceOverride" /\ c.ret \in [kind : {"row"}, presence_preference : ModeInputs]

IsBundle(v) == DOMAIN v = {"username", "displayName", "avatar", "online", "status"}

\* the identity triple of a bundle is that of the users row
SameTriple(b, row) ==
  /\ b.username = row.username_lower
  /\ b.displayName = OrEmpty(row.display_name)
  /\ b.avatar = OrEmpty(row.avatar_url)

\* C12: the (username, displayName, avatar) triple of every bundle returned by
\* getCriticalUserData(uid) is the triple of one users row that uid has had:
\* never a mix of two durable states.
C12_NoTornRead ==
  [][\A p \in Procs :
       (Returns(p) /\ call'[p].op = "getCriticalUserData" /\ IsBundle(call'[p].ret))
       => \E row \in history'[call'[p].uid] : SameTriple(call'[p].ret, row)]_vars

\* p is repeating, with no concurrent call, the claim that q completed
\* successfully and that still stands
Repeats(p, q) ==
  /\ p # q
  /\ InFlight(call[p]) /\ call[p].op = "setUsername"
  /\ call[p].solo /\ call[p].again
  /\ Completed(q, "setUsername") /\ call[q].ret.success
  /\ call[q].uid = call[p].uid /\ call[q].name = call[p].name

\* C13: setUsername(uid, u) repeated with no other actor succeeds again (unless
\* the durable store itself fails) and leaves the forward entry, the reverse
\* entry, the durable username_lower and the cached bundle as the first call
\* left them.
C13_ClaimIsIdempotent ==
  [][\A p, q \in Procs :
       /\ (Acts(p) /\ Repeats(p, q))
          => /\ forward' = forward /\ reverse' = reverse
             /\ users' = users /\ cud' = cud
             /\ call'[p].pc = "done"
                  => call'[p].ret \in {Success(call[p].name), Failure("STORE_ERROR")}
       /\ (/\ Returns(p) /\ call'[p].op = "setUsername"
           /\ call[p].solo /\ call'[p].ret.success
           /\ call'[p].uid \in DOMAIN users)
          => LET uid == call'[p].uid
                 name == call'[p].name
             IN /\ Has(forward', name) /\ forward'[name] = uid
                /\ Has(reverse', uid) /\ reverse'[uid] = name
                /\ users'[uid].username_lower = name
                /\ Has(cud', uid) => cud'[uid].username = name]_vars

\* the same claim has succeeded twice, the second time finding the name
\* already its own
C13_Witness ==
  \E p, q \in Procs :
    /\ p # q
    /\ Completed(p, "setUsername") /\ Completed(q, "setUsername")
    /\ call[p].uid = call[q].uid /\ call[p].name = call[q].name
    /\ call[q].ret.success
    /\ call[p].again
    /\ call[p].ret = Success(call[p].name)
    /\ Converged(call[p].uid, call[p].name)

\* the format policy as the claim states it, on a normalised name
PolicyOk(u) ==
  /\ Len(u) \in 3..30
  /\ \A i \in 1..Len(u) : u[i] \in Range(LowerLetters) \cup DigitChars \cup {".", "_", "-"}

\* C14: a setUsername call goes on to the stores only with a normalised name
\* of 3 to 30 characters from [a-z0-9._-]; a call that is turned away at entry
\* returns success:false and changes neither tier.
C14_BadFormatTouchesNothing ==
  [][\A p \in Procs :
       /\ (call'[p].n # call[p].n /\ call'[p].op = "setUsername")
          => IF call'[p].pc = "done"
             THEN call'[p].ret.success = FALSE /\ UNCHANGED <<cache, durable, clocks>>
             ELSE PolicyOk(call'[p].name)
       /\ (Acts(p) /\ InFlight(call[p]) /\ call[p].op = "setUsername"
              /\ <<cache, durable>>' # <<cache, durable>>)
          => PolicyOk(call[p].name)]_vars

\* a claim has been refused for its format and the registry is still empty
C14_Witness ==
  \E p \in Procs :
    /\ Completed(p, "setUsername")
    /\ call[p].uid \in UIDS
    /\ call[p].ret = Failure("INVALID_USERNAME_FORMAT")
    /\ forward = Empty /\ reverse = Empty

\* C15: isUsernameTaken(name) returns true exactly when the normalised name
\* fails the format policy or a forward entry exists for it.
C15_TakenIffInvalidOrClaimed ==
  [][\A p \in Procs :
       (Returns(p) /\ call'[p].op = "isUsernameTaken")
       => call'[p].ret = Taken(~PolicyOk(call'[p].name) \/ Has(forward, call'[p].name))]_vars

\* a name asked about after its claim succeeded was reported taken
C15_Witness ==
  \E p, q \in Procs :
    /\ Completed(q, "setUsername") /\ call[q].ret.success
    /\ Completed(p, "isUsernameTaken")
    /\ call[p].name = call[q].name
    /\ call[p].ret = Taken(TRUE)
    /\ Has(forward, call[p].name)

\* the modes of Users.PRESENCE_MODE
ValidModes == {PRESENCE_MODE.REAL, PRESENCE_MODE.AWAY, PRESENCE_MODE.OFFLINE}

\* C16: a setPresenceOverride(uid, mode) call whose mode is not real, away or
\* offline changes neither the override key, nor the bundle entry, nor the
\* settings row, and returns a failure.
C16_InvalidModeRejected ==
  [][\A p \in Procs :
       (/\ Acts(p) /\ InFlight(call[p])
        /\ call[p].op = "setPresenceOverride"
        /\ call[p].mode \notin ValidModes)
       => /\ override' = override /\ cud' = cud /\ settings' = settings
          /\ call'[p].pc = "done" => call'[p].ret.kind = "result" /\ ~call'[p].ret.success]_vars

\* C17: once an override away (offline) is written for uid, every
\* getOnlineStatus(uid) returns online+away (offline) whatever the heartbeat
\* summary does, and the override key changes only by the write of a later
\* setPresenceOverride(uid, _): it never expires.
C17_OverrideIsSticky ==
  [][/\ \A p \in Procs :
          (/\ Returns(p) /\ call'[p].op = "getOnlineStatus"
           /\ Has(override, call'[p].uid)
           /\ override[call'[p].uid] \in {"away", "offline"})
          => call'[p].ret = IF override[call'[p].uid] = "away"
                            THEN Presence(TRUE, "away")
                            ELSE Presence(FALSE, "offline")
     /\ \A u \in DOMAIN override :
          (~Has(override', u) \/ override'[u] # override[u])
          => \E p \in Procs : Acts(p) /\ call[p].pc = "po_set" /\ call[p].uid = u]_vars

\* the call of q was a setPresenceOverride for uid whose settings write failed
OverrideWriteFailed(c, uid) ==
  /\ c.pc = "done" /\ c.op = "setPresenceOverride" /\ c.uid = uid
  /\ c.ret \in {Failure("STORE_ERROR"), Failure("PERSISTENCE_FAILED")}

\* C18: when the settings write of setPresenceOverride(uid, mode) fails, the
\* call returns a failure, the override key holds mode, the bundle entry
\* stays deleted and the settings row is unchanged; a getOnlineStatus(uid)
\* after it already answers by the new mode.
C18_FailedSettingsWriteKeepsOverride ==
  [][\A p \in Procs :
       /\ (Returns(p) /\ call[p].pc = "po_update" /\ OverrideWriteFailed(call'[p], call[p].uid))
          => /\ call'[p].ret.success = FALSE
             /\ Has(override', call[p].uid) /\ override'[call[p].uid] = call[p].mode
             /\ call[p].solo => ~Has(cud', call[p].uid)
             /\ settings' = settings
       /\ (/\ Returns(p) /\ call'[p].op = "getOnlineStatus"
           /\ \E q \in Procs : OverrideWriteFailed(call[q], call'[p].uid)
           /\ override[call'[p].uid] \in {"away", "offline"})
          => call'[p].ret = IF override[call'[p].uid] = "away"
                            THEN Presence(TRUE, "away")
                            ELSE Presence(FALSE, "offline")]_vars

\* C19: an updatePresenceFromSocket(uid, connId) call that has passed
\* validation refreshes the heartbeat summary and, whether or not the durable
\* last-activity write fails, goes on to delete cud:{uid} and reports no
\* failure.
C19_HeartbeatSurvivesDurableFailure ==
  [][\A p \in Procs :
       /\ (Acts(p) /\ call[p].pc = "ps_set")
          => Has(summary', call[p].uid) /\ call'[p].pc # "done"
       /\ (Returns(p) /\ call[p].pc \in {"ps_update", "ps_del"})
          => /\ call'[p].ret = [kind |-> "update"]
             /\ call[p].solo => ~Has(cud', call[p].uid)]_vars

\* positions of setUsername once the forward and reverse entries are written
AfterEntries == {"su_update", "su_getCud", "su_setCud", "su_getCurr", "su_del"}

\* p's setUsername call, alone, fails at a step that follows the two writes
FailsAfterEntries(p) ==
  /\ Returns(p) /\ call[p].pc \in AfterEntries
  /\ call[p].solo
  /\ call'[p].ret.success = FALSE

\* the forward and reverse entries the call wrote are still there
EntriesStay(c) ==
  /\ Has(forward', c.name) /\ forward'[c.name] = c.uid
  /\ Has(reverse', c.uid) /\ reverse'[c.uid] = c.name

\* C20 as stated: when the durable write or any later step of setUsername
\* fails, the call returns failure, the new forward and reverse entries stay,
\* and the users row of uid is the one the call found.
C20_FailureKeepsEntriesAndOldRow ==
  [][\A p \in Procs :
       FailsAfterEntries(p)
       => /\ EntriesStay(call[p])
          /\ call[p].uid \in DOMAIN users => users'[call[p].uid] = call[p].before]_vars

\* C20 amended: when the durable write or any later step of setUsername
\* fails, the call returns failure and the new forward and reverse entries
\* stay; the users row of uid is the one the call found if the durable write
\* itself failed, and carries the new name if a later step failed.
C20_FailureKeepsEntries ==
  [][\A p \in Procs :
       FailsAfterEntries(p)
       => /\ EntriesStay(call[p])
          /\ call[p].uid \in DOMAIN users
               => IF call[p].pc = "su_update"
                  THEN users'[call[p].uid] = call[p].before
                  ELSE users'[call[p].uid] = [call[p].before EXCEPT !.username_lower = call[p].name]]_vars

\* the only call made was a rename of u1 that failed after its durable write:
\* both entries and the users row carry the new name
C20_Witness ==
  \E p \in Procs :
    /\ \A q \in Procs \ {p} : call[q].pc = "idle"
    /\ Completed(p, "setUsername")
    /\ call[p].ret = Failure("STORE_ERROR")
    /\ call[p].uid = "u1"
    /\ Has(forward, call[p].name) /\ forward[call[p].name] = "u1"
    /\ Has(reverse, "u1") /\ reverse["u1"] = call[p].name
    /\ users["u1"].username_lower = call[p].name
    /\ users["u1"] # SeedUsers["u1"]

\* the step p takes ends its call with a failure
StepFails(p) == call'[p].pc = "done" /\ ~call'[p].ret.success

\* C21: a setUsername(uid, u) call with no concurrent actor whose steps do
\* not fail, and that finds a bundle entry for uid, rewrites it with username
\* u, displayName and avatar (and the stored presence) as they were, and a
\* 300-second TTL; a call that finds none creates none.
C21_BundlePatchedInPlace ==
  [][\A p \in Procs :
       (Acts(p) /\ call[p].op = "setUsername" /\ call[p].solo /\ ~StepFails(p))
       => /\ (call[p].pc = "su_getCud" /\ Has(cud, call[p].uid))
               => call'[p].pc = "su_setCud"
          /\ call[p].pc = "su_setCud"
               => /\ Has(cud, call[p].uid)
                  /\ cud' = [cud EXCEPT ![call[p].uid].username = call[p].name]
                  /\ cudTtl' = [cudTtl EXCEPT ![call[p].uid] = 300]
          /\ ~Has(cud, call[p].uid) => ~Has(cud', call[p].uid)]_vars

\* a rename of u1 has succeeded and the cached bundle carries the new name
\* beside the display name and avatar it had
C21_Witness ==
  \E p \in Procs :
    /\ Completed(p, "setUsername") /\ call[p].ret.success
    /\ call[p].uid = "u1" /\ call[p].name # alice
    /\ Has(cud, "u1")
    /\ cud["u1"] = [SeedBundle EXCEPT !.username = call[p].name]
    /\ cudTtl["u1"] = 300

\* process p's setUsername call returns success in this step, ran with no
\* concurrent actor, and found the reverse entry of its uid holding another
\* name than the one it claims
RenamesAlone(p) ==
  /\ Returns(p) /\ call'[p].op = "setUsername" /\ InFlight(call[p]) /\ call[p].solo
  /\ call'[p].ret.success
  /\ call'[p].ret.previous # NoName /\ call'[p].ret.previous # call[p].name

\* C22: after a successful setUsername(uid, new) with no concurrent actor by a
\* uid whose reverse entry held old # new, the forward entry for old does not
\* exist.
C22_OldNameFreed ==
  [][\A p \in Procs :
       RenamesAlone(p) => ~Has(forward', call'[p].ret.previous)]_vars

\* process p's getCriticalUsersData call returns in this step, and not from
\* the catch block that a failed MGET leads to
BundlesReturned(p) ==
  /\ Returns(p) /\ call'[p].op = "getCriticalUsersData"
  /\ call[p].pc \in {"gm_mget", "gm_getCud", "gm_query"}
  /\ ~(call[p].pc = "gm_mget" /\ call'[p].captured)

\* neither tier knows uid
Unknown(uid) == uid \notin DOMAIN users /\ ~Has(cud, uid)

\* C23: the list getCriticalUsersData(uids) returns has the length of uids and
\* its i-th element carries uids[i], for hits, misses, duplicates and unknown
\* uids alike; an unknown uid gets the placeholder (or, when the durable read
\* made for it fails, the error object of that read).
C23_BundlesAlignedWithInput ==
  [][\A p \in Procs :
       BundlesReturned(p)
       => LET in == call'[p].uids.items
              out == call'[p].ret.items
          IN /\ Len(out) = Len(in)
             /\ \A i \in 1..Len(in) :
                  /\ out[i].uid = in[i]
                  /\ Unknown(in[i])
                       => out[i] \in {Spread(in[i], Placeholder), Spread(in[i], StoreError)}]_vars

\* a call for an unknown uid followed by a cached one has returned the
\* placeholder and the cached bundle, in that order
C23_Witness ==
  \E p \in Procs :
    /\ Completed(p, "getCriticalUsersData")
    /\ call[p].uids = List(<<"u3", "u1">>)
    /\ call[p].ret = ListRet(<<Spread("u3", Placeholder), Spread("u1", SeedBundle)>>)

\* no presence key exists for uid
NoPresenceKeys(uid) == ~Has(override, uid) /\ ~Has(summary, uid)

\* C24: the list getBatchOnlineStatus(uids) returns has exactly one entry
\* {uid, online, status} per input uid, in input order, and a uid without
\* presence keys is reported offline when no other call ran concurrently.
C24_PresenceAlignedWithInput ==
  [][\A p \in Procs :
       (Returns(p) /\ call'[p].op = "getBatchOnlineStatus" /\ call'[p].ret.kind = "list")
       => LET in == call'[p].uids.items
              out == call'[p].ret.items
          IN /\ Len(out) = Len(in)
             /\ \A i \in 1..Len(in) :
                  /\ out[i].uid = in[i]
                  /\ DOMAIN out[i] = {"uid", "online", "status"}
                  /\ (call[p].solo /\ NoPresenceKeys(in[i]))
                       => out[i] = [uid |-> in[i], online |-> FALSE, status |-> "offline"]]_vars

\* a call for the unknown u3 followed by u1, who is away, has returned
\* offline and away, in that order
C24_Witness ==
  \E p \in Procs :
    /\ Completed(p, "getBatchOnlineStatus")
    /\ call[p].uids = List(<<"u3", "u1">>)
    /\ call[p].ret = ListRet(<<[uid |-> "u3", online |-> FALSE, status |-> "offline"],
                               [uid |-> "u1", online |-> TRUE, status |-> "away"]>>)

\* C25: every element getCriticalUsersData returns, from a hit or from a
\* hydrated miss, has the online/status that the override and heartbeat keys
\* resolve to when the call is made (no other call running), not those stored
\* in the cached bundle.
C25_BatchPresenceIsLive ==
  [][\A p \in Procs :
       (BundlesReturned(p) /\ call[p].solo)
       => \A i \in 1..Len(call'[p].ret.items) :
            LET e == call'[p].ret.items[i]
            IN /\ "online" \in DOMAIN e
               /\ e.online = ResolveFromKeys(e.uid).online
               /\ e.status = ResolveFromKeys(e.uid).status]_vars

\* C27: a getCriticalUserData call whose validation or store access fails,
\* and so reaches the catch block that captures the error, returns null.
C27_BundleReadFailsToNull ==
  [][\A p \in Procs :
       (Returns(p) /\ call'[p].op = "getCriticalUserData" /\ call'[p].captured)
       => call'[p].ret = Null]_vars

\* C26: when the getCriticalUserData(uid) made by buildUserProfile(uid) has
\* yielded no bundle (no users row, or a failed read), buildUserProfile
\* returns null.
C26_NoBundleNoProfile ==
  [][\A p \in Procs :
       (Returns(p) /\ call'[p].op = "buildUserProfile" /\ call[p].pc = "bp_profile"
          /\ ~IsBundle(call[p].bundle))
       => call'[p].ret = Null]_vars

\* the longest list the batch operation op accepts
BatchLimit(op) == IF op = "getCriticalUsersData" THEN CUD_BATCH_MAX ELSE PRESENCE_BATCH_MAX

\* C28: getCriticalUsersData and getBatchOnlineStatus called with a uid list
\* that fails validation (null, empty, or longer than the limit) return an
\* empty list and capture the error.
C28_InvalidListGivesEmptyList ==
  [][\A p \in Procs :
       (Returns(p) /\ call'[p].op \in {"getCriticalUsersData", "getBatchOnlineStatus"}
          /\ ~RequiredArray(call'[p].uids, 1, BatchLimit(call'[p].op)))
       => (call'[p].ret = ListRet(<<>>) /\ call'[p].captured)]_vars

\* the public operations of Users
PublicOps ==
  {"getCriticalUserData", "getCriticalUsersData", "getOnlineStatus", "getBatchOnlineStatus",
   "updatePresenceFromSocket", "setPresenceOverride", "isUsernameTaken", "setUsername",
   "getUserField", "updateUserField", "buildUserData", "buildUserSettings",
   "buildUserProfile"}

\* C29: no public operation throws to its caller: whatever the input and
\* whichever call to the cache tier or the durable tier fails, a call that
\* ends has handed a value to its caller, and a call in progress always has
\* a next step.
C29_NoCallThrows ==
  \A p \in Procs :
    /\ call[p].pc = "done" => (call[p].op \in PublicOps /\ call[p].ret # NoRet)
    /\ InFlight(call[p]) => ENABLED NextCalls

\* a getUserField call whose query failed has ended in the catch block and
\* returned the structured failure
C29_Witness ==
  /\ call["p1"].pc = "done" /\ call["p1"].captured
  /\ call["p1"].op = "getUserField" /\ call["p1"].fault
  /\ call["p1"].ret = Failure("STORE_ERROR")

CacheReaders == {"getOnlineStatus", "getBatchOnlineStatus", "isUsernameTaken"}

\* C31: no step of getOnlineStatus, getBatchOnlineStatus or isUsernameTaken
\* changes a cache key or a durable row, and none issues a durable query.
C31_CacheReadersOnlyRead ==
  [][\A p \in Procs :
       (Acts(p) /\ call'[p].op \in CacheReaders)
       => /\ cache' = cache
          /\ durable' = durable
          /\ call'[p].reads = 0]_vars

\* a batch presence read has returned its list while u1 is under an override
C31_Witness ==
  \E p \in Procs :
    /\ Completed(p, "getBatchOnlineStatus")
    /\ call[p].ret.kind = "list"
    /\ Has(override, "u1")
    /\ call[p].reads = 0

\* the tables and columns the field accessors are meant to reach
AllowListed(tableName, fieldKey) ==
  tableName \in DOMAIN Schema /\ fieldKey \in Schema[tableName]

\* C32: getUserField and updateUserField called with a table or a field that
\* is not allow-listed send no statement to the durable tier and return a
\* failure.
C32_OnlyAllowListedIdentifiers ==
  [][\A p \in Procs :
       (Returns(p) /\ call'[p].op \in {"getUserField", "updateUserField"}
          /\ ~AllowListed(call'[p].tableName, call'[p].fieldKey))
       => (call'[p].queries = 0 /\ ~call'[p].ret.success)]_vars

\* bundle b carries the username, display name and avatar of the row
Current(b, row) ==
  /\ {"username", "displayName", "avatar"} \subseteq DOMAIN b
  /\ b.username = row.username_lower
  /\ b.displayName = OrEmpty(row.display_name)
  /\ b.avatar = OrEmpty(row.avatar_url)

\* C33: a getCriticalUserData(uid) issued more than CRITICAL_USER_DATA_TTL
\* seconds after the last durable change of uid's username, display name or
\* avatar returns the values the durable tier holds.
C33_BoundedStaleness ==
  [][\A p \in Procs :
       (/\ Returns(p)
        /\ call'[p].op = "getCriticalUserData"
        /\ call'[p].uid \in DOMAIN users
        /\ age[call'[p].uid] > CRITICAL_USER_DATA_TTL)
       => Current(call'[p].ret, users[call'[p].uid])]_vars

\* no override is set for uid, or the override is real
NoOverride(uid) == ~Has(override, uid) \/ override[uid] = PRESENCE_MODE.REAL

\* C34: with no override (or override real), getOnlineStatus(uid) returns
\* online exactly while fewer than PRESENCE_TTL seconds have passed since the
\* last successful updatePresenceFromSocket(uid, .), and offline when no
\* heartbeat was ever recorded or the last one is older.
C34_OnlineWhileHeartbeatFresh ==
  [][\A p \in Procs :
       (/\ Returns(p)
        /\ call'[p].op = "getOnlineStatus"
        /\ call'[p].uid \in UIDS
        /\ NoOverride(call'[p].uid))
       => (call'[p].ret.online
             <=> (beat[call'[p].uid] # Never /\ beat[call'[p].uid] < PRESENCE_TTL))]_vars

\* C35: a setUsername call never deletes a forward entry that names a uid
\* other than its own, whatever concurrent claimants do between its read of
\* the old entry's owner and its delete.
C35_DeletesOnlyOwnEntry ==
  [][\A p \in Procs : \A u \in DOMAIN forward \ DOMAIN forward' :
       Acts(p) => forward[u] = call[p].uid]_vars

\* C36: whenever no setUsername call is in progress, the forward and the
\* reverse map mirror each other: reverse[uid] = u implies forward[u] = uid
\* and forward[u] = uid implies reverse[uid] = u.
C36_MapsMirror ==
  (\A p \in Procs : ~(InFlight(call[p]) /\ call[p].op = "setUsername"))
  => /\ \A u \in DOMAIN reverse : Has(forward, reverse[u]) /\ forward[reverse[u]] = u
     /\ \A n \in DOMAIN forward : Has(reverse, forward[n]) /\ reverse[forward[n]] = n

C38_ReadReflectsPresenceWrite ==
  [][\A p, q \in Procs :
       (/\ p # q
        /\ Returns(p) /\ call[p].solo
        /\ call'[p].op = "getCriticalUserData"
        /\ call'[p].uid \in DOMAIN users
        /\ call[q].pc = "done" /\ ReturnedNormally(call[q])
        /\ call[q].uid = call'[p].uid)
       => /\ IsBundle(call'[p].ret)
          /\ call'[p].ret.online = ClaimedPresence(call'[p].uid).online
          /\ call'[p].ret.status = ClaimedPresence(call'[p].uid).status]_vars

\* C39: every entry of the list getBatchOnlineStatus(uids) returns has the
\* online and status that getOnlineStatus(uid) returns in the same cache
\* state (no other call ran while the batch read its keys).
C39_BatchAgreesWithSingle ==
  [][\A p \in Procs :
       (/\ Returns(p) /\ call[p].solo
        /\ call'[p].op = "getBatchOnlineStatus"
        /\ call'[p].ret.kind = "list")
       => \A i \in 1..Len(call'[p].ret.items) :
            LET entry == call'[p].ret.items[i]
                single == getOnlineStatus(entry.uid)
            IN entry.online = single.online /\ entry.status = single.status]_vars

====
